---------------------------- MODULE Spec2Model ----------------------------
(***************************************************************************)
(* State-machine model of the MCP Gateway Registry CDK application:        *)
(* the entry point (parameter resolution, validation, deployment-mode      *)
(* dispatch) and the two stack classes it instantiates                     *)
(* (McpgwCompleteInfrastructureStack, McpgwMicroservicesCdkStack) together *)
(* with the Kubernetes manifest constructs they add to the cluster.        *)
(*                                                                         *)
(* Strings of the program are TLA+ strings; a JavaScript `undefined` or    *)
(* empty string is "" (both are falsy).  The raw maxAzs input is a         *)
(* sequence of one-character strings so that parseInt can be computed.     *)
(***************************************************************************)
EXTENDS Integers, Sequences, FiniteSets, TLC

(***************************************************************************)
(* Bounds of the model.                                                    *)
(***************************************************************************)
\* at most this many inputs are given beyond the environment variables
\* DEPLOYMENT_MODE, DOMAIN_NAME, ADMIN_PASSWORD and EFS_FILE_SYSTEM_ID:
\* CDK context keys (-c key=value) and optional environment variables
MaxOverrides == 2
\* the entry point is run at most this many times
MaxRuns == 2
\* Date.now() returns a value in 1..MaxClock
MaxClock == 2
\* number of distinct values the Math.random()-built secret key can take
NumSecretKeys == 2

(***************************************************************************)
(* Raw inputs: CDK context and process environment (after dotenv).         *)
(***************************************************************************)
ValidModes == {"complete", "infrastructure-only", "application-only"}

ModeStrings == ValidModes \cup {"staging"}

BoolStrings == {"true", "false"}

\* raw maxAzs strings, character by character
CtxMaxAzsRaw == {<<"2">>, <<"a", "z">>}

EnvMaxAzsRaw == {<<"4">>, <<"4", "x">>}

CtxSpace ==
  [deploymentMode    : {""} \cup ModeStrings,
   clusterName       : {"", "ctx-cluster"},
   domainName        : {"", "ctx.example.com"},
   efsFileSystemId   : {"", "fs-ctx"},
   certificateArn    : {"", "arn:ctx-cert"},
   adminPassword     : {"", "ctx-password"},
   hostedZoneId      : {"", "Z-CTX"},
   createCertificate : {""} \cup BoolStrings,
   vpcCidr           : {"", "10.1.0.0/16"},
   maxAzs            : {<<>>} \cup CtxMaxAzsRaw,
   kubernetesVersion : {"", "1.27"}]

\* the environment variables some deployment mode needs
EnvRequiredSpace ==
  [deploymentMode    : {""} \cup ModeStrings,
   domainName        : {"", "env.example.com"},
   adminPassword     : {"", "env-password"},
   efsFileSystemId   : {"", "fs-env"}]

\* the optional environment variables
EnvOptionalSpace ==
  [clusterName         : {"", "env-cluster"},
   certificateArn      : {"", "arn:env-cert"},
   hostedZoneId        : {"", "Z-ENV"},
   createCertificate   : {""} \cup BoolStrings,
   vpcCidr             : {"", "10.2.0.0/16"},
   maxAzs              : {<<>>} \cup EnvMaxAzsRaw,
   kubernetesVersion   : {"", "1.29"},
   cdkDefaultRegion    : {"", "eu-west-1"},
   cognitoClientId     : {"", "env-client-id"},
   cognitoClientSecret : {"", "env-client-secret"},
   cognitoUserPoolId   : {"", "env-pool-id"}]

B2N(b) == IF b THEN 1 ELSE 0

\* number of keys a context record sets
KeysSet(r) ==
    B2N(r.deploymentMode # "") + B2N(r.clusterName # "") + B2N(r.domainName # "")
  + B2N(r.efsFileSystemId # "") + B2N(r.certificateArn # "")
  + B2N(r.adminPassword # "") + B2N(r.hostedZoneId # "")
  + B2N(r.createCertificate # "") + B2N(r.vpcCidr # "") + B2N(r.maxAzs # <<>>)
  + B2N(r.kubernetesVersion # "")

\* number of optional environment variables a record sets
OptionalSet(r) ==
    B2N(r.clusterName # "") + B2N(r.certificateArn # "") + B2N(r.hostedZoneId # "")
  + B2N(r.createCertificate # "") + B2N(r.vpcCidr # "") + B2N(r.maxAzs # <<>>)
  + B2N(r.kubernetesVersion # "") + B2N(r.cdkDefaultRegion # "")
  + B2N(r.cognitoClientId # "") + B2N(r.cognitoClientSecret # "")
  + B2N(r.cognitoUserPoolId # "")

\* the context records that set exactly k keys
CtxWith == [k \in 0..MaxOverrides |-> {c \in CtxSpace : KeysSet(c) = k}]

\* the optional environments that set at most k variables
EnvOptionalUpTo ==
  [k \in 0..MaxOverrides |-> {o \in EnvOptionalSpace : OptionalSet(o) <= k}]

\* process.env assembled from its two parts
MkEnv(r, o) ==
  [deploymentMode      |-> r.deploymentMode,
   domainName          |-> r.domainName,
   adminPassword       |-> r.adminPassword,
   efsFileSystemId     |-> r.efsFileSystemId,
   clusterName         |-> o.clusterName,
   certificateArn      |-> o.certificateArn,
   hostedZoneId        |-> o.hostedZoneId,
   createCertificate   |-> o.createCertificate,
   vpcCidr             |-> o.vpcCidr,
   maxAzs              |-> o.maxAzs,
   kubernetesVersion   |-> o.kubernetesVersion,
   cdkDefaultRegion    |-> o.cdkDefaultRegion,
   cognitoClientId     |-> o.cognitoClientId,
   cognitoClientSecret |-> o.cognitoClientSecret,
   cognitoUserPoolId   |-> o.cognitoUserPoolId]

\* the values Math.random().toString(36)... can produce
SecretKeys == {"rnd" \o ToString(i) : i \in 1..NumSecretKeys}

VARIABLES
  ctx,        \* app.node.tryGetContext : the CDK context
  env,        \* process.env
  pc,         \* position of the entry point / stack constructor
  params,     \* the parameters resolved by the entry point
  stacks,     \* ids of the stacks instantiated on the app
  props,      \* the props handed to the stack constructor
  graph,      \* resources added so far, in order of creation
  outputs,    \* CfnOutputs added so far
  error,      \* message of the Error thrown ("" if none)
  now,        \* last value Date.now() returned
  run,        \* number of the current run of the entry point
  prev,       \* result of the previous run
  sh          \* state of the deployment script deploy.sh

vars == <<ctx, env, pc, params, stacks, props, graph, outputs, error, now, run, prev, sh>>

(***************************************************************************)
(* JavaScript helpers.                                                     *)
(***************************************************************************)
\* a || b with the operands swapped: the second operand wins when set
OrSecondFirst(a, b) == IF b # "" THEN b ELSE a

\* a || b on strings: the first truthy (non-empty) operand
Or(a, b) == IF a # "" THEN a ELSE b

\* a || b on character sequences
OrSeq(a, b) == IF a # <<>> THEN a ELSE b

\* parseInt yields NaN when the string does not start with a digit
NaN == -1

Digits == {"0", "1", "2", "3", "4", "5", "6", "7", "8", "9"}

DigitVal(c) ==
  CASE c = "0" -> 0 [] c = "1" -> 1 [] c = "2" -> 2 [] c = "3" -> 3 [] c = "4" -> 4
    [] c = "5" -> 5 [] c = "6" -> 6 [] c = "7" -> 7 [] c = "8" -> 8 [] c = "9" -> 9

RECURSIVE ParseDigits(_, _)
\* value of the longest prefix of digits of s, continuing from acc
ParseDigits(s, acc) ==
  IF s = <<>> \/ Head(s) \notin Digits THEN acc
  ELSE ParseDigits(Tail(s), 10 * acc + DigitVal(Head(s)))

\* parseInt(s): the leading digits, NaN when there are none
ParseInt(s) ==
  IF s = <<>> \/ Head(s) \notin Digits THEN NaN ELSE ParseDigits(s, 0)

\* String.prototype.toLowerCase on the two stack names
ToLowerCase(s) ==
  CASE s = "McpgwCompleteInfrastructureStack" -> "mcpgwcompleteinfrastructurestack"
    [] s = "McpgwInfrastructureStackFresh" -> "mcpgwinfrastructurestackfresh"
    [] OTHER -> s

(***************************************************************************)
(* Entry point: parameter resolution (bin, lines 16-24 and 39-41).         *)
(***************************************************************************)
\* the parameters before the entry point has resolved them
NoParams ==
  [deploymentMode |-> "", clusterName |-> "", domainName |-> "",
   efsFileSystemId |-> "", certificateArn |-> "", adminPassword |-> "",
   hostedZoneId |-> "", createCertificate |-> "", vpcCidr |-> "",
   maxAzs |-> 0, kubernetesVersion |-> ""]

\* tryGetContext('createCertificate') || process.env.CREATE_CERTIFICATE === 'true'
\* ("" stands for the boolean false, "true" for the boolean true; a context
\* string, "false" included, is kept as it is and is truthy)
ResolveCreateCertificate(c, e) ==
  Or(c.createCertificate, IF e.createCertificate = "true" THEN "true" ELSE "")

\* lines 17-24
ResolveCommon(c, e) ==
  [NoParams EXCEPT
     !.deploymentMode    = Or(c.deploymentMode, Or(e.deploymentMode, "complete")),
     !.clusterName       = Or(c.clusterName, Or(e.clusterName, "mcp-gateway-registry")),
     !.domainName        = Or(c.domainName, e.domainName),
     !.efsFileSystemId   = Or(c.efsFileSystemId, e.efsFileSystemId),
     !.certificateArn    = Or(c.certificateArn, e.certificateArn),
     !.adminPassword     = Or(c.adminPassword, e.adminPassword),
     !.hostedZoneId      = Or(c.hostedZoneId, e.hostedZoneId),
     !.createCertificate = ResolveCreateCertificate(c, e)]

\* lines 39-41 and 89-91: the infrastructure parameters
ResolveInfrastructure(p, c, e) ==
  [p EXCEPT
     !.vpcCidr           = Or(c.vpcCidr, Or(e.vpcCidr, "10.0.0.0/16")),
     !.maxAzs            = ParseInt(OrSeq(c.maxAzs, OrSeq(e.maxAzs, <<"3">>))),
     !.kubernetesVersion = Or(c.kubernetesVersion, Or(e.kubernetesVersion, "1.28"))]

\* truthiness of a string value
Truthy(s) == s # ""

(***************************************************************************)
(* Resources.  Every construct the stacks create is a record; `via` tells  *)
(* how it was created: "cfn" (a construct of the stack), "import" (a       *)
(* reference to an existing resource), "manifest" (cluster.addManifest),   *)
(* "chart" (cluster.addHelmChart), "sa" (cluster.addServiceAccount),       *)
(* "fargate" (cluster.addFargateProfile) and "construct" (a construct of   *)
(* the stack that only groups manifests).                                  *)
(***************************************************************************)
Res(id, via, kind, ns, name) ==
  [id |-> id, via |-> via, kind |-> kind, ns |-> ns, name |-> name,
   data     |-> {},   \* <<key, value>> : the payload (data, stringData, parameters, ...)
   env      |-> {},   \* <<name, value>> : literal container environment variables
   claims   |-> {},   \* persistentVolumeClaim claimNames of the pod's volumes
   refs     |-> {},   \* <<"secret" | "configMap", name, key>> : valueFrom references
   ports    |-> {},   \* ports a Service exposes
   backends |-> {},   \* <<service name, port>> : backends of an Ingress
   uses     |-> {},   \* ids of the constructs whose attributes the payload reads
   deps     |-> {}]   \* ids added with node.addDependency

Manifest(id, kind, ns, name) == Res(id, "manifest", kind, ns, name)

\* the Ingress with the /auth rule sent to port 8000 instead of 8888
AlbIngressAuthPort8000(namespace, domainName, certificateArn) ==
  << [Manifest("RegistryIngress", "Ingress", namespace, "registry-ingress") EXCEPT
        !.data = {<<"alb.ingress.kubernetes.io/certificate-arn", certificateArn>>,
                  <<"host", domainName>>},
        !.backends = {<<"registry", 7860>>, <<"auth-server", 8000>>,
                      <<"mcpgw-server", 8003>>, <<"currenttime-server", 8000>>,
                      <<"fininfo-server", 8001>>, <<"faketools-server", 8002>>}] >>

\* lib/k8s-manifests/alb-ingress.ts
AlbIngress(namespace, domainName, certificateArn) ==
  << [Manifest("RegistryIngress", "Ingress", namespace, "registry-ingress") EXCEPT
        !.data = {<<"alb.ingress.kubernetes.io/certificate-arn", certificateArn>>,
                  <<"host", domainName>>},
        !.backends = {<<"registry", 7860>>, <<"auth-server", 8888>>,
                      <<"mcpgw-server", 8003>>, <<"currenttime-server", 8000>>,
                      <<"fininfo-server", 8001>>, <<"faketools-server", 8002>>}] >>

\* lib/k8s-manifests/efs-pvc.ts
EfsPvc(namespace, efsFileSystemId) ==
  << [Manifest("EfsStorageClass", "StorageClass", "", "efs-sc") EXCEPT
        !.data = {<<"provisioner", "efs.csi.aws.com">>,
                  <<"provisioningMode", "efs-ap">>,
                  <<"fileSystemId", efsFileSystemId>>,
                  <<"directoryPerms", "755">>,
                  <<"gidRangeStart", "1000">>, <<"gidRangeEnd", "2000">>,
                  <<"basePath", "/mcp-gateway">>}],
     [Manifest("EfsPvc", "PersistentVolumeClaim", namespace, "efs-pvc") EXCEPT
        !.data = {<<"storageClassName", "efs-sc">>, <<"storage", "100Gi">>}] >>

\* the claimName of the volume of the four tool/gateway servers
EfsPvcClaimName == "efs-pvc"

\* the claimName of the volume of auth-server and registry
EfsClaimName == "efs-claim"

\* lib/k8s-manifests/auth-server-deployment-updated.ts
AuthServerDeployment(p) ==
  << [Manifest("AuthServerDeployment", "Deployment", p.namespace, "auth-server") EXCEPT
        !.env = {<<"HOME", "/app">>, <<"PYTHONUNBUFFERED", "1">>,
                 <<"REGISTRY_URL", p.registryUrl>>,
                 <<"SECRET_KEY", p.secretKey>>,
                 <<"ADMIN_USER", p.adminUser>>,
                 <<"ADMIN_PASSWORD", p.adminPassword>>,
                 <<"AUTH_SERVER_EXTERNAL_URL", p.authServerExternalUrl>>,
                 <<"COGNITO_CLIENT_ID", p.cognitoClientId>>,
                 <<"COGNITO_CLIENT_SECRET", p.cognitoClientSecret>>,
                 <<"COGNITO_USER_POOL_ID", p.cognitoUserPoolId>>,
                 <<"AWS_REGION", p.awsRegion>>},
        !.ports = {8888},
        !.claims = {EfsClaimName}],
     [Manifest("AuthServerService", "Service", p.namespace, "auth-server") EXCEPT
        !.ports = {8888}],
     [Manifest("AuthServerHPA", "HorizontalPodAutoscaler", p.namespace, "auth-server-hpa")
        EXCEPT !.data = {<<"scaleTargetRef", "auth-server">>}] >>

\* the registry Deployment with a secret key of its own instead of props.secretKey
RegistryDeploymentOwnSecretKey(p) ==
  << [Manifest("RegistryDeployment", "Deployment", p.namespace, "registry") EXCEPT
        !.env = {<<"HOME", "/app">>, <<"PYTHONUNBUFFERED", "1">>,
                 <<"DEBIAN_FRONTEND", "noninteractive">>,
                 <<"SECRET_KEY", "registry-" \o p.secretKey>>,
                 <<"ADMIN_USER", p.adminUser>>,
                 <<"ADMIN_PASSWORD", p.adminPassword>>,
                 <<"AUTH_SERVER_URL", p.authServerUrl>>,
                 <<"AUTH_SERVER_EXTERNAL_URL", p.authServerExternalUrl>>,
                 <<"REGISTRY_URL", p.registryUrl>>,
                 <<"DOMAIN_NAME", p.domainName>>,
                 <<"COGNITO_CLIENT_ID", p.cognitoClientId>>,
                 <<"COGNITO_CLIENT_SECRET", p.cognitoClientSecret>>,
                 <<"COGNITO_USER_POOL_ID", p.cognitoUserPoolId>>,
                 <<"AWS_REGION", p.awsRegion>>,
                 <<"EMBEDDINGS_MODEL_NAME", "all-MiniLM-L6-v2">>,
                 <<"EMBEDDINGS_MODEL_DIMENSIONS", "384">>},
        !.ports = {80, 443, 7860},
        !.claims = {EfsClaimName}],
     [Manifest("RegistryService", "Service", p.namespace, "registry") EXCEPT
        !.ports = {80, 443, 7860}],
     [Manifest("RegistryHPA", "HorizontalPodAutoscaler", p.namespace, "registry-hpa")
        EXCEPT !.data = {<<"scaleTargetRef", "registry">>}] >>

\* lib/k8s-manifests/registry-deployment-updated.ts
RegistryDeployment(p) ==
  << [Manifest("RegistryDeployment", "Deployment", p.namespace, "registry") EXCEPT
        !.env = {<<"HOME", "/app">>, <<"PYTHONUNBUFFERED", "1">>,
                 <<"DEBIAN_FRONTEND", "noninteractive">>,
                 <<"SECRET_KEY", p.secretKey>>,
                 <<"ADMIN_USER", p.adminUser>>,
                 <<"ADMIN_PASSWORD", p.adminPassword>>,
                 <<"AUTH_SERVER_URL", p.authServerUrl>>,
                 <<"AUTH_SERVER_EXTERNAL_URL", p.authServerExternalUrl>>,
                 <<"REGISTRY_URL", p.registryUrl>>,
                 <<"DOMAIN_NAME", p.domainName>>,
                 <<"COGNITO_CLIENT_ID", p.cognitoClientId>>,
                 <<"COGNITO_CLIENT_SECRET", p.cognitoClientSecret>>,
                 <<"COGNITO_USER_POOL_ID", p.cognitoUserPoolId>>,
                 <<"AWS_REGION", p.awsRegion>>,
                 <<"EMBEDDINGS_MODEL_NAME", "all-MiniLM-L6-v2">>,
                 <<"EMBEDDINGS_MODEL_DIMENSIONS", "384">>},
        !.ports = {80, 443, 7860},
        !.claims = {EfsClaimName}],
     [Manifest("RegistryService", "Service", p.namespace, "registry") EXCEPT
        !.ports = {80, 443, 7860}],
     [Manifest("RegistryHPA", "HorizontalPodAutoscaler", p.namespace, "registry-hpa")
        EXCEPT !.data = {<<"scaleTargetRef", "registry">>}] >>

\* ...(props.efsFileSystemId && { volumes: [...] }) of the tool servers
ToolVolumes(efsFileSystemId) ==
  IF Truthy(efsFileSystemId) THEN {EfsPvcClaimName} ELSE {}

\* lib/k8s-manifests/currenttime-server-deployment.ts
CurrentTimeServerDeployment(namespace, efsFileSystemId) ==
  << [Manifest("CurrentTimeServerDeployment", "Deployment", namespace,
               "currenttime-server") EXCEPT
        !.env = {<<"PORT", "8000">>, <<"PYTHONUNBUFFERED", "1">>,
                 <<"MCP_SERVER_NAME", "currenttime-server">>},
        !.ports = {8000},
        !.claims = ToolVolumes(efsFileSystemId)],
     [Manifest("CurrentTimeServerService", "Service", namespace, "currenttime-server")
        EXCEPT !.ports = {8000}] >>

\* lib/k8s-manifests/fininfo-server-deployment.ts
FinInfoServerDeployment(namespace, efsFileSystemId) ==
  << [Manifest("FinInfoServerDeployment", "Deployment", namespace, "fininfo-server")
        EXCEPT
        !.env = {<<"PORT", "8001">>, <<"PYTHONUNBUFFERED", "1">>,
                 <<"MCP_SERVER_NAME", "fininfo-server">>},
        !.refs = {<<"secret", "mcp-gateway-secrets", "polygon-api-key">>},
        !.ports = {8001},
        !.claims = ToolVolumes(efsFileSystemId)],
     [Manifest("FinInfoServerService", "Service", namespace, "fininfo-server")
        EXCEPT !.ports = {8001}] >>

\* faketools-server without its Service
FakeToolsServerDeploymentNoService(namespace, efsFileSystemId) ==
  << [Manifest("FakeToolsServerDeployment", "Deployment", namespace, "faketools-server")
        EXCEPT
        !.env = {<<"PORT", "8002">>, <<"PYTHONUNBUFFERED", "1">>,
                 <<"MCP_SERVER_NAME", "faketools-server">>},
        !.ports = {8002},
        !.claims = ToolVolumes(efsFileSystemId)] >>

\* lib/k8s-manifests/faketools-server-deployment.ts
FakeToolsServerDeployment(namespace, efsFileSystemId) ==
  << [Manifest("FakeToolsServerDeployment", "Deployment", namespace, "faketools-server")
        EXCEPT
        !.env = {<<"PORT", "8002">>, <<"PYTHONUNBUFFERED", "1">>,
                 <<"MCP_SERVER_NAME", "faketools-server">>},
        !.ports = {8002},
        !.claims = ToolVolumes(efsFileSystemId)],
     [Manifest("FakeToolsServerService", "Service", namespace, "faketools-server")
        EXCEPT !.ports = {8002}] >>

\* lib/k8s-manifests/mcpgw-server-deployment.ts
McpGatewayServerDeployment(namespace, efsFileSystemId) ==
  << [Manifest("McpGatewayServerDeployment", "Deployment", namespace, "mcpgw-server")
        EXCEPT
        !.env = {<<"PORT", "8003">>, <<"PYTHONUNBUFFERED", "1">>,
                 <<"MCP_SERVER_NAME", "mcpgw-server">>},
        !.refs = {<<"configMap", "mcp-gateway-config", "AUTH_SERVER_URL">>,
                  <<"configMap", "mcp-gateway-config", "REGISTRY_URL">>},
        !.ports = {8003},
        !.claims = ToolVolumes(efsFileSystemId)],
     [Manifest("McpGatewayServerService", "Service", namespace, "mcpgw-server")
        EXCEPT !.ports = {8003}] >>

(***************************************************************************)
(* Adding constructs to the construct tree.  A construct id is unique in   *)
(* its scope: `new Construct(scope, id)` throws when the scope already has *)
(* a child of that id.  cluster.addManifest(id, ..) creates the child      *)
(* `manifest-<id>` of the cluster, addHelmChart `chart-<id>`,              *)
(* addFargateProfile `fargate-profile-<id>`, addServiceAccount `<id>`.     *)
(***************************************************************************)
ScopeOf(r) == IF r.via \in {"cfn", "import", "construct"} THEN "stack" ELSE r.via

IsDuplicate(g, r) ==
  \E i \in 1..Len(g) : ScopeOf(g[i]) = ScopeOf(r) /\ g[i].id = r.id

ErrDuplicate(r) ==
  "There is already a Construct with name '" \o r.via \o "-" \o r.id \o "'"

RECURSIVE Emit(_, _)
\* the constructs rs created in order on top of g; creation stops at the
\* first one whose id is taken, with the Error thrown
Emit(g, rs) ==
  IF rs = <<>> THEN [graph |-> g, err |-> ""]
  ELSE IF IsDuplicate(g, Head(rs)) THEN [graph |-> g, err |-> ErrDuplicate(Head(rs))]
  ELSE Emit(Append(g, Head(rs)), Tail(rs))

\* the resources rs, each also reading attributes of the constructs u
Using(rs, u) == [i \in 1..Len(rs) |-> [rs[i] EXCEPT !.uses = @ \cup u]]

Output(id, value) == [id |-> id, value |-> value]

(***************************************************************************)
(* McpgwCompleteInfrastructureStack (lib/mcpgw-complete-infrastructure-    *)
(* stack.ts).  Attributes of resources that are only known at deployment   *)
(* are CloudFormation tokens, written "${<construct id>.<attribute>}".     *)
(***************************************************************************)
EfsIdToken == "${McpEfs.FileSystemId}"

ClusterNameToken == "${McpCluster.ClusterName}"

NewCertificateArnToken == "${McpGatewayCertificate.Arn}"

UserPoolIdToken == "${McpUserPool.UserPoolId}"

UserPoolClientIdToken == "${McpUserPoolClient.ClientId}"

UserPoolClientSecretToken == "${McpUserPoolClient.ClientSecret}"

\* generateUniqueServiceAccountName
GenerateUniqueServiceAccountName(baseName, stackName) ==
  baseName \o "-" \o ToLowerCase(stackName)

\* props.maxAzs || 3 : NaN and 0 are falsy
MaxAzsOrDefault(n) == IF n = NaN \/ n = 0 THEN 3 ELSE n

\* createVpc
CreateVpcResources(p) ==
  << [Res("McpVpc", "cfn", "AWS::EC2::VPC", "", "") EXCEPT
        !.data = {<<"cidr", Or(p.vpcCidr, "10.0.0.0/16")>>,
                  <<"maxAzs", ToString(MaxAzsOrDefault(p.maxAzs))>>,
                  <<"natGateways", "1">>}],
     [Res("McpVpcFlowLog", "cfn", "AWS::EC2::FlowLog", "", "") EXCEPT
        !.uses = {"McpVpc"}] >>

\* createEfsFileSystem
CreateEfsFileSystemResources(p) ==
  << [Res("McpEfs", "cfn", "AWS::EFS::FileSystem", "", "") EXCEPT
        !.data = {<<"performanceMode", Or(p.efsPerformanceMode, "generalPurpose")>>,
                  <<"throughputMode", Or(p.efsThroughputMode, "bursting")>>,
                  <<"encrypted", "true">>},
        !.uses = {"McpVpc"}],
     [Res("McpEfsAccessPoint", "cfn", "AWS::EFS::AccessPoint", "", "") EXCEPT
        !.data = {<<"path", "/mcp-gateway">>},
        !.uses = {"McpEfs"}] >>

\* createEksCluster
CreateEksClusterResources(p) ==
  << Res("KubectlLayer", "cfn", "AWS::Lambda::LayerVersion", "", ""),
     [Res("McpCluster", "cfn", "Custom::AWSCDK-EKS-Cluster", "", "") EXCEPT
        !.data = {<<"version", Or(p.kubernetesVersion, "V1_28")>>,
                  <<"clusterName", Or(p.clusterName, "mcp-gateway-registry")>>,
                  <<"defaultProfile", "default-fargate-profile">>},
        !.uses = {"McpVpc", "KubectlLayer", "McpEfs"}] >>

\* the certificate the stack's createCertificate returns
CertificateArnOf(p) ==
  IF Truthy(p.certificateArn) THEN p.certificateArn ELSE NewCertificateArnToken

NewCertificate(p, validation, more) ==
  [Res("McpGatewayCertificate", "cfn", "AWS::CertificateManager::Certificate", "", "")
     EXCEPT !.data = {<<"domainName", p.domainName>>,
                      <<"validation", validation>>} \cup more]

\* createCertificate of the complete stack
CreateCertificateResources(p) ==
  IF Truthy(p.certificateArn)
  THEN << [Res("ExistingCertificate", "import", "AWS::CertificateManager::Certificate",
               "", "") EXCEPT !.data = {<<"certificateArn", p.certificateArn>>}] >>
  ELSE IF Truthy(p.hostedZoneId)
  THEN << [Res("HostedZone", "import", "AWS::Route53::HostedZone", "", "") EXCEPT
             !.data = {<<"hostedZoneId", p.hostedZoneId>>}],
          [NewCertificate(p, "dns-hosted-zone",
                          {<<"subjectAlternativeName", "*." \o p.domainName>>,
                           <<"certificateName", "mcp-gateway-" \o p.domainName>>})
             EXCEPT !.uses = {"HostedZone"}] >>
  ELSE << NewCertificate(p, "dns",
                         {<<"subjectAlternativeName", "*." \o p.domainName>>,
                          <<"certificateName", "mcp-gateway-" \o p.domainName>>}) >>

CreateCertificateOutputs(p) ==
  IF ~Truthy(p.certificateArn) /\ ~Truthy(p.hostedZoneId)
  THEN << Output("CertificateDnsValidationRecords",
                 "Check AWS Console ACM for DNS validation records for "
                   \o p.domainName) >>
  ELSE << >>

\* cognitoCallbackUrls / cognitoLogoutUrls as the entry point and the stack
\* build them from the domain name
CallbackUrls(domainName) ==
  {"http://localhost:9090/callback", "http://localhost/oauth2/callback/cognito",
   "http://localhost:8888/oauth2/callback/cognito",
   "https://" \o domainName \o "/oauth2/callback/cognito"}

LogoutUrls(domainName) ==
  {"https://" \o domainName \o "/auth/logout", "https://" \o domainName \o "/logout"}

\* createCognitoUserPool
CreateCognitoUserPoolResources(p) ==
  << [Res("McpUserPool", "cfn", "AWS::Cognito::UserPool", "", "") EXCEPT
        !.data = {<<"userPoolName",
                    Or(p.cognitoUserPoolName, "mcp-gateway-users-" \o p.clusterName)>>}],
     [Res("McpUserPoolClient", "cfn", "AWS::Cognito::UserPoolClient", "", "") EXCEPT
        !.data = {<<"userPoolClientName", "mcp-gateway-client">>,
                  <<"generateSecret", "true">>}
                 \cup {<<"callbackUrl", u>> : u \in p.cognitoCallbackUrls}
                 \cup {<<"logoutUrl", u>> : u \in p.cognitoLogoutUrls},
        !.uses = {"McpUserPool"}],
     [Res("McpAdminGroup", "cfn", "AWS::Cognito::UserPoolGroup", "", "") EXCEPT
        !.data = {<<"groupName", "mcp-registry-admin">>}, !.uses = {"McpUserPool"}],
     [Res("McpUserGroup", "cfn", "AWS::Cognito::UserPoolGroup", "", "") EXCEPT
        !.data = {<<"groupName", "mcp-registry-user">>}, !.uses = {"McpUserPool"}],
     [Res("McpResourceServer", "cfn", "AWS::Cognito::UserPoolResourceServer", "", "")
        EXCEPT !.data = {<<"identifier", "mcp-servers-unrestricted">>,
                         <<"scope", "read">>, <<"scope", "execute">>},
               !.uses = {"McpUserPool"}],
     [Res("McpM2MClient", "cfn", "AWS::Cognito::UserPoolClient", "", "") EXCEPT
        !.data = {<<"userPoolClientName", "mcp-agent-client">>,
                  <<"generateSecret", "true">>},
        !.uses = {"McpUserPool", "McpResourceServer"}],
     [Res("McpUserPoolDomain", "cfn", "AWS::Cognito::UserPoolDomain", "", "") EXCEPT
        !.data = {<<"domainPrefix", "mcp-gateway-" \o p.clusterName>>},
        !.uses = {"McpUserPool"}],
     [Res("McpAdminUser", "cfn", "AWS::Cognito::UserPoolUser", "", "") EXCEPT
        !.data = {<<"username", "admin">>, <<"email", "admin@" \o p.domainName>>},
        !.uses = {"McpUserPool"}],
     [Res("AdminUserGroupAttachment", "cfn",
          "AWS::Cognito::UserPoolUserToGroupAttachment", "", "") EXCEPT
        !.data = {<<"username", "admin">>, <<"groupName", "mcp-registry-admin">>},
        !.uses = {"McpUserPool"}] >>

ServiceAccount(id, ns, name) ==
  [Res(id, "sa", "ServiceAccount", ns, name) EXCEPT !.uses = {"McpCluster"}]

HelmChart(id, ns, release, more) ==
  [Res(id, "chart", "HelmRelease", ns, release) EXCEPT
     !.data = more, !.uses = {"McpCluster"}]

\* installCoreEksAddons: installManagedAddons, installMetricsServer,
\* installExternalDns
InstallCoreEksAddonsResources(stackName) ==
  << [Res("CoreDnsAddon", "cfn", "AWS::EKS::Addon", "", "coredns") EXCEPT
        !.data = {<<"addonVersion", "v1.10.1-eksbuild.4">>}, !.uses = {"McpCluster"}],
     [Res("PodIdentityAddon", "cfn", "AWS::EKS::Addon", "", "eks-pod-identity-agent")
        EXCEPT !.uses = {"McpCluster"}],
     HelmChart("MetricsServer", "kube-system", "metrics-server",
               {<<"version", "3.12.1">>}),
     ServiceAccount("ExternalDns", "kube-system",
                    GenerateUniqueServiceAccountName("external-dns", stackName)),
     HelmChart("ExternalDns", "kube-system", "external-dns",
               {<<"version", "1.14.3">>, <<"provider", "aws">>,
                <<"serviceAccount.name",
                  GenerateUniqueServiceAccountName("external-dns", stackName)>>}) >>

\* installAwsLoadBalancerController
InstallAwsLoadBalancerControllerResources(stackName) ==
  << ServiceAccount("AWSLoadBalancerController", "kube-system",
       GenerateUniqueServiceAccountName("aws-load-balancer-controller", stackName)),
     HelmChart("AWSLoadBalancerController", "kube-system",
               "aws-load-balancer-controller",
               {<<"clusterName", ClusterNameToken>>,
                <<"serviceAccount.name",
                  GenerateUniqueServiceAccountName("aws-load-balancer-controller",
                                                   stackName)>>}) >>

\* installEfsCsiDriver
InstallEfsCsiDriverResources(stackName) ==
  << ServiceAccount("EfsCsiController", "kube-system",
       GenerateUniqueServiceAccountName("efs-csi-controller-sa", stackName)),
     HelmChart("AwsEfsCsiDriver", "kube-system", "aws-efs-csi-driver",
               {<<"controller.serviceAccount.name",
                  GenerateUniqueServiceAccountName("efs-csi-controller-sa", stackName)>>,
                <<"node.serviceAccount.name",
                  GenerateUniqueServiceAccountName("efs-csi-controller-sa",
                                                   stackName)>>}),
     [Manifest("EfsStorageClass", "StorageClass", "", "efs-sc") EXCEPT
        !.data = {<<"provisioner", "efs.csi.aws.com">>,
                  <<"provisioningMode", "efs-ap">>,
                  <<"fileSystemId", EfsIdToken>>,
                  <<"directoryPerms", "755">>},
        !.uses = {"McpCluster", "McpEfs"}],
     [Manifest("EfsPersistentVolume", "PersistentVolume", "", "efs-pv") EXCEPT
        !.data = {<<"storageClassName", "efs-sc">>, <<"storage", "5Gi">>,
                  <<"volumeHandle", EfsIdToken>>, <<"path", "/mcp-gateway">>},
        !.uses = {"McpCluster", "McpEfs"}] >>

\* createRequiredNamespaces
CreateRequiredNamespacesResources ==
  << Manifest("CloudWatchNamespace", "Namespace", "", "amazon-cloudwatch"),
     Manifest("ApplicationNamespace", "Namespace", "", "kubeflow-user-example-com") >>

FargateProfile(id, name, namespace) ==
  [Res(id, "fargate", "AWS::EKS::FargateProfile", "", name) EXCEPT
     !.data = {<<"selector.namespace", namespace>>}, !.uses = {"McpCluster"}]

\* addApplicationFargateProfiles
AddApplicationFargateProfilesResources ==
  << FargateProfile("MonitoringProfile", "monitoring-profile", "amazon-cloudwatch"),
     FargateProfile("ApplicationProfile", "application-profile",
                    "kubeflow-user-example-com") >>

\* enableContainerInsights
EnableContainerInsightsResources(stackName, region) ==
  << ServiceAccount("CloudWatchAgent", "amazon-cloudwatch",
                    GenerateUniqueServiceAccountName("cloudwatch-agent", stackName)),
     ServiceAccount("FluentBit", "amazon-cloudwatch",
                    GenerateUniqueServiceAccountName("fluent-bit", stackName)),
     [Manifest("FluentBitDeployment", "Deployment", "amazon-cloudwatch", "fluent-bit")
        EXCEPT
        !.data = {<<"serviceAccountName",
                    GenerateUniqueServiceAccountName("fluent-bit", stackName)>>},
        !.env = {<<"AWS_REGION", region>>, <<"CLUSTER_NAME", ClusterNameToken>>},
        !.uses = {"McpCluster"}] >>

(***************************************************************************)
(* The application manifests, common to deployMcpGatewayMicroservices of   *)
(* the complete stack and deployMicroservicesArchitecture of the           *)
(* microservices stack.                                                    *)
(***************************************************************************)
McpNamespace == "mcp-registry"

\* a construct of the stack that groups manifests (new EfsPvc(this, 'EfsPvc', ..))
Group(id) == Res(id, "construct", "Construct", "", "")

McpRegistryNamespace ==
  [Manifest("McpRegistryNamespace", "Namespace", "", McpNamespace) EXCEPT
     !.data = {<<"label.managed-by", "cdk">>}]

\* the ConfigMap mcp-gateway-config; clock is the value Date.now() returned
McpGatewayConfigMap(adminUser, clock, region, domainName, efsFileSystemId, clusterName) ==
  [Manifest("McpGatewayConfigMap", "ConfigMap", McpNamespace, "mcp-gateway-config")
     EXCEPT
     !.data = {<<"ADMIN_USER", adminUser>>,
               <<"SECRET_KEY", "auto-generated-secret-key-cdk-" \o ToString(clock)>>,
               <<"AWS_REGION", region>>,
               <<"AUTH_SERVER_URL", "http://auth-server:8888">>,
               <<"REGISTRY_URL", "http://registry:7860">>,
               <<"MCPGW_SERVER_URL", "http://mcpgw-server:8003">>,
               <<"CURRENTTIME_SERVER_URL", "http://currenttime-server:8000">>,
               <<"FININFO_SERVER_URL", "http://fininfo-server:8001">>,
               <<"FAKETOOLS_SERVER_URL", "http://faketools-server:8002">>,
               <<"DOMAIN_NAME", domainName>>,
               <<"EFS_FILE_SYSTEM_ID", efsFileSystemId>>,
               <<"CLUSTER_NAME", clusterName>>}]

\* the Secret mcp-gateway-secrets without its polygon-api-key entry
McpGatewaySecretNoPolygonKey(adminPassword) ==
  [Manifest("McpGatewaySecret", "Secret", McpNamespace, "mcp-gateway-secrets") EXCEPT
     !.data = {<<"admin-password", adminPassword>>,
               <<"github-client-id", "">>, <<"github-client-secret", "">>}]

\* the Secret mcp-gateway-secrets
McpGatewaySecret(adminPassword) ==
  [Manifest("McpGatewaySecret", "Secret", McpNamespace, "mcp-gateway-secrets") EXCEPT
     !.data = {<<"admin-password", adminPassword>>, <<"polygon-api-key", "">>,
               <<"github-client-id", "">>, <<"github-client-secret", "">>}]

\* the props both stacks hand to AuthServerDeployment and RegistryDeployment
ServiceProps(adminUser, adminPassword, secretKey, domainName, cognito, region) ==
  [namespace |-> McpNamespace, registryUrl |-> "http://registry:7860",
   secretKey |-> secretKey, adminUser |-> adminUser, adminPassword |-> adminPassword,
   authServerExternalUrl |-> "https://" \o domainName,
   authServerUrl |-> "http://auth-server:8888", domainName |-> domainName,
   cognitoClientId |-> cognito.clientId, cognitoClientSecret |-> cognito.clientSecret,
   cognitoUserPoolId |-> cognito.userPoolId, awsRegion |-> region]

\* everything from the ConfigMap to the Ingress, in the order of creation;
\* m holds the values the stack puts into them
Microservices(m) ==
  LET sp == ServiceProps(m.adminUser, m.adminPassword, m.secretKey, m.domainName,
                         m.cognito, m.region)
  IN   << McpGatewayConfigMap(m.adminUser, m.clock, m.region, m.domainName,
                              m.efsFileSystemId, m.clusterName),
          McpGatewaySecret(m.adminPassword),
          Group("AuthServerDeployment") >>
    \o AuthServerDeployment(sp)
    \o << Group("RegistryDeployment") >> \o RegistryDeployment(sp)
    \o << Group("CurrentTimeServerDeployment") >>
    \o CurrentTimeServerDeployment(McpNamespace, m.efsFileSystemId)
    \o << Group("FinInfoServerDeployment") >>
    \o FinInfoServerDeployment(McpNamespace, m.efsFileSystemId)
    \o << Group("FakeToolsServerDeployment") >>
    \o FakeToolsServerDeployment(McpNamespace, m.efsFileSystemId)
    \o << Group("McpGatewayServerDeployment") >>
    \o McpGatewayServerDeployment(McpNamespace, m.efsFileSystemId)
    \o << Group("AlbIngress") >>
    \o AlbIngress(McpNamespace, m.domainName, m.certificateArn)

\* deployMcpGatewayMicroservices, up to the EfsPvc construct (lines 766-801)
DeployMcpGatewayStorage ==
     << [McpRegistryNamespace EXCEPT !.uses = {"McpCluster"}],
        Res("McpClusterFargateProfile", "cfn", "AWS::IAM::Role", "", ""),
        [Res("McpRegistryFargateProfile", "cfn", "AWS::EKS::FargateProfile", "", "")
           EXCEPT !.data = {<<"selector.namespace", McpNamespace>>},
                  !.uses = {"McpCluster", "McpClusterFargateProfile"}],
        Group("EfsPvc") >>
  \o Using(EfsPvc(McpNamespace, EfsIdToken), {"McpCluster", "McpEfs"})

\* deployMcpGatewayMicroservices, from the ConfigMap on (lines 803-917)
DeployMcpGatewayWorkloads(p, secretKey, clock) ==
  Using(Microservices(
          [adminUser |-> Or(p.adminUser, "admin"), adminPassword |-> p.adminPassword,
           secretKey |-> secretKey, clock |-> clock, region |-> p.region,
           domainName |-> p.domainName, efsFileSystemId |-> EfsIdToken,
           clusterName |-> ClusterNameToken,
           cognito |-> [clientId |-> UserPoolClientIdToken,
                        clientSecret |-> UserPoolClientSecretToken,
                        userPoolId |-> UserPoolIdToken],
           certificateArn |-> CertificateArnOf(p)]),
        {"McpCluster"})

\* createOutputs of the complete stack
CompleteOutputs(p) ==
  << Output("VpcId", "${McpVpc.VpcId}"),
     Output("ClusterName", ClusterNameToken),
     Output("ClusterEndpoint", "${McpCluster.Endpoint}"),
     Output("EfsFileSystemId", EfsIdToken),
     Output("CertificateArn", CertificateArnOf(p)),
     Output("UserPoolId", UserPoolIdToken),
     Output("UserPoolClientId", UserPoolClientIdToken),
     Output("M2MClientId", "${McpM2MClient.ClientId}"),
     Output("CognitoDomain", "https://${McpUserPoolDomain.DomainName}.auth."
                               \o p.region \o ".amazoncognito.com"),
     Output("ResourceServerIdentifier", "${McpResourceServer.Id}"),
     Output("DomainName", p.domainName) >>

(***************************************************************************)
(* McpgwMicroservicesCdkStack (lib/mcpgw-microservices-cdk-stack.ts).      *)
(***************************************************************************)
ErrNoCertificate == "Either certificateArn or createCertificate must be provided"

\* setupCertificate with createCertificate tested before certificateArn
SetupCertificateResultCreateFirst(p) ==
  IF p.createCertificate
  THEN [resources |->
          IF Truthy(p.hostedZoneId)
          THEN << [Res("HostedZone", "import", "AWS::Route53::HostedZone", "", "")
                     EXCEPT !.data = {<<"hostedZoneId", p.hostedZoneId>>}],
                  [NewCertificate(p, "dns-hosted-zone", {}) EXCEPT
                     !.uses = {"HostedZone"}] >>
          ELSE << NewCertificate(p, "dns", {}) >>,
        outputs |-> << Output("NewCertificateArn", NewCertificateArnToken) >>,
        err |-> ""]
  ELSE IF Truthy(p.certificateArn)
  THEN [resources |->
          << [Res("ExistingCertificate", "import",
                  "AWS::CertificateManager::Certificate", "", "") EXCEPT
                !.data = {<<"certificateArn", p.certificateArn>>}] >>,
        outputs |-> << >>, err |-> ""]
  ELSE [resources |-> << >>, outputs |-> << >>, err |-> ErrNoCertificate]

\* setupCertificate without its final throw: with no certificateArn a
\* certificate is created whether or not createCertificate is set
SetupCertificateResultNoThrow(p) ==
  IF Truthy(p.certificateArn)
  THEN [resources |->
          << [Res("ExistingCertificate", "import",
                  "AWS::CertificateManager::Certificate", "", "") EXCEPT
                !.data = {<<"certificateArn", p.certificateArn>>}] >>,
        outputs |-> << >>, err |-> ""]
  ELSE [resources |->
          IF Truthy(p.hostedZoneId)
          THEN << [Res("HostedZone", "import", "AWS::Route53::HostedZone", "", "")
                     EXCEPT !.data = {<<"hostedZoneId", p.hostedZoneId>>}],
                  [NewCertificate(p, "dns-hosted-zone", {}) EXCEPT
                     !.uses = {"HostedZone"}] >>
          ELSE << NewCertificate(p, "dns", {}) >>,
        outputs |-> << Output("NewCertificateArn", NewCertificateArnToken) >>,
        err |-> ""]

\* setupCertificate: the constructs created, the outputs added, the Error thrown
SetupCertificateResult(p) ==
  IF Truthy(p.certificateArn)
  THEN [resources |->
          << [Res("ExistingCertificate", "import",
                  "AWS::CertificateManager::Certificate", "", "") EXCEPT
                !.data = {<<"certificateArn", p.certificateArn>>}] >>,
        outputs |-> << >>, err |-> ""]
  ELSE IF p.createCertificate
  THEN [resources |->
          IF Truthy(p.hostedZoneId)
          THEN << [Res("HostedZone", "import", "AWS::Route53::HostedZone", "", "")
                     EXCEPT !.data = {<<"hostedZoneId", p.hostedZoneId>>}],
                  [NewCertificate(p, "dns-hosted-zone", {}) EXCEPT
                     !.uses = {"HostedZone"}] >>
          ELSE << NewCertificate(p, "dns", {}) >>,
        outputs |-> << Output("NewCertificateArn", NewCertificateArnToken) >>,
        err |-> ""]
  ELSE [resources |-> << >>, outputs |-> << >>, err |-> ErrNoCertificate]

\* deployMicroservicesArchitecture creating the cluster instead of importing it
DeployMicroservicesStorageNewCluster(p) ==
     << [Res("ExistingCluster", "cfn", "Custom::AWSCDK-EKS-Cluster", "", "") EXCEPT
           !.data = {<<"clusterName", Or(p.clusterName, "mcp-gateway-registry")>>}] >>
  \o Using(<< McpRegistryNamespace, Group("EfsPvc") >>
             \o EfsPvc(McpNamespace, p.efsFileSystemId),
           {"ExistingCluster"})

\* deployMicroservicesArchitecture, up to the EfsPvc construct (lines 73-101)
DeployMicroservicesStorage(p) ==
     << [Res("ExistingCluster", "import", "AWS::EKS::Cluster", "", "") EXCEPT
           !.data = {<<"clusterName", Or(p.clusterName, "mcp-gateway-registry")>>}] >>
  \o Using(<< McpRegistryNamespace, Group("EfsPvc") >>
             \o EfsPvc(McpNamespace, p.efsFileSystemId),
           {"ExistingCluster"})

\* deployMicroservicesArchitecture, from the ConfigMap on (lines 103-217);
\* e is process.env, read for the Cognito settings
DeployMicroservicesWorkloads(p, e, secretKey, clock) ==
  Using(Microservices(
          [adminUser |-> Or(p.adminUser, "admin"), adminPassword |-> p.adminPassword,
           secretKey |-> secretKey, clock |-> clock, region |-> p.region,
           domainName |-> p.domainName, efsFileSystemId |-> p.efsFileSystemId,
           clusterName |-> Or(p.clusterName, "mcp-gateway-registry"),
           cognito |->
             [clientId |-> Or(p.cognitoClientId, Or(e.cognitoClientId, "")),
              clientSecret |-> Or(p.cognitoClientSecret, Or(e.cognitoClientSecret, "")),
              userPoolId |-> Or(p.cognitoUserPoolId, Or(e.cognitoUserPoolId, ""))],
           certificateArn |-> CertificateArnOf(p)]),
        {"ExistingCluster"})

\* createOutputs of the microservices stack
MicroservicesOutputs(p) ==
  << Output("ClusterName", Or(p.clusterName, "mcp-gateway-registry")),
     Output("DomainName", p.domainName),
     Output("DomainUrl", "https://" \o p.domainName),
     Output("EfsFileSystemId", p.efsFileSystemId),
     Output("CertificateArn", CertificateArnOf(p)),
     Output("Namespace", "mcp-registry"),
     Output("Services",
            "{\"auth-server\":\"http://auth-server:8888\","
              \o "\"registry\":\"http://registry:7860\","
              \o "\"mcpgw-server\":\"http://mcpgw-server:8003\","
              \o "\"currenttime-server\":\"http://currenttime-server:8000\","
              \o "\"fininfo-server\":\"http://fininfo-server:8001\","
              \o "\"faketools-server\":\"http://faketools-server:8002\"}"),
     Output("DeploymentInstructions",
            "1. Verify EKS cluster access: kubectl get nodes\n"
              \o "2. Check namespace: kubectl get ns mcp-registry\n"
              \o "3. Monitor deployment: kubectl get pods -n mcp-registry -w\n"
              \o "4. Check services: kubectl get svc -n mcp-registry\n"
              \o "5. View ingress: kubectl get ingress -n mcp-registry\n"
              \o "6. Access application: https://" \o p.domainName) >>

(***************************************************************************)
(* Entry point (bin): validation and dispatch on the deployment mode.      *)
(***************************************************************************)
ErrDomainName ==
  "domainName is required. Set via context or DOMAIN_NAME environment variable."

ErrAdminPassword ==
  "adminPassword is required. Set via context or ADMIN_PASSWORD environment variable."

ErrEfsFileSystemId ==
  "efsFileSystemId is required for application-only mode. Set via context or EFS_FILE_SYSTEM_ID environment variable."

ErrInvalidMode(mode) ==
  "Invalid deployment mode: " \o mode
    \o ". Use 'complete', 'infrastructure-only', or 'application-only'."

CompleteStackId == "McpgwCompleteInfrastructureStack"

InfrastructureStackId == "McpgwInfrastructureStackFresh"

MicroservicesStackId == "McpgwMicroservicesCdkStack"

NoProps == [stackName |-> ""]

\* kubernetesVersion === '1.28' ? V1_28 : kubernetesVersion === '1.27' ? V1_27 : V1_28
KubernetesVersionOf(v) ==
  IF v = "1.28" THEN "V1_28" ELSE IF v = "1.27" THEN "V1_27" ELSE "V1_28"

\* process.env.CDK_DEFAULT_REGION || 'us-east-1'
RegionOf(e) == Or(e.cdkDefaultRegion, "us-east-1")

\* createCertificate passed on as resolved, without `|| !certificateArn`
CreateCertificateAsResolved(q) == Truthy(q.createCertificate)

\* createCertificate || !certificateArn, as the truth value the stacks test
CreateCertificateOf(q) == Truthy(q.createCertificate) \/ ~Truthy(q.certificateArn)

\* the props of `new McpgwCompleteInfrastructureStack(app, id, {..})`;
\* deployApplications is TRUE when the entry point leaves it undefined
InfrastructureProps(id, q, e, deployApplications) ==
  [stackName |-> id, domainName |-> q.domainName, adminPassword |-> q.adminPassword,
   adminUser |-> "", hostedZoneId |-> q.hostedZoneId,
   certificateArn |-> q.certificateArn, createCertificate |-> CreateCertificateOf(q),
   vpcCidr |-> q.vpcCidr, maxAzs |-> q.maxAzs, clusterName |-> q.clusterName,
   kubernetesVersion |-> KubernetesVersionOf(q.kubernetesVersion),
   efsPerformanceMode |-> "generalPurpose", efsThroughputMode |-> "bursting",
   cognitoUserPoolName |-> "mcp-gateway-users-" \o q.clusterName,
   cognitoCallbackUrls |-> CallbackUrls(q.domainName),
   cognitoLogoutUrls |-> LogoutUrls(q.domainName),
   deployApplications |-> deployApplications, region |-> RegionOf(e)]

\* the props of `new McpgwMicroservicesCdkStack(app, id, {..})`
MicroservicesProps(id, q, e) ==
  [stackName |-> id, clusterName |-> q.clusterName, domainName |-> q.domainName,
   efsFileSystemId |-> q.efsFileSystemId, certificateArn |-> q.certificateArn,
   adminPassword |-> q.adminPassword, adminUser |-> "",
   hostedZoneId |-> q.hostedZoneId, createCertificate |-> CreateCertificateOf(q),
   cognitoClientId |-> "", cognitoClientSecret |-> "", cognitoUserPoolId |-> "",
   region |-> RegionOf(e)]

(***************************************************************************)
(* Initial state: the entry point has not started; context and environment *)
(* are any inputs within the bound.                                        *)
(***************************************************************************)
NoPrev == [run |-> 0]

\* the entry point is run without the deployment script
NoShell == [pc |-> "none"]

Init ==
  /\ \E k \in 0..MaxOverrides :
       /\ ctx \in CtxWith[k]
       /\ \E r \in EnvRequiredSpace, o \in EnvOptionalUpTo[MaxOverrides - k] :
            env = MkEnv(r, o)
  /\ pc = "start"
  /\ params = NoParams
  /\ stacks = << >>
  /\ props = NoProps
  /\ graph = << >>
  /\ outputs = << >>
  /\ error = ""
  /\ now = 1
  /\ run = 1
  /\ prev = NoPrev
  /\ sh = NoShell

(***************************************************************************)
(* Entry point.                                                            *)
(***************************************************************************)
\* lines 16-24
ResolveParameters ==
  /\ pc = "start"
  /\ params' = ResolveCommon(ctx, env)
  /\ pc' = "validate"
  /\ UNCHANGED <<ctx, env, stacks, props, graph, outputs, error, now, run, prev, sh>>

\* lines 26-32 without the adminPassword check
ValidateRequiredDomainOnly ==
  /\ pc = "validate"
  /\ IF ~Truthy(params.domainName)
       THEN error' = ErrDomainName /\ pc' = "failed"
       ELSE error' = error /\ pc' = "dispatch"
  /\ UNCHANGED <<ctx, env, params, stacks, props, graph, outputs, now, run, prev, sh>>

\* lines 26-32
ValidateRequired ==
  /\ pc = "validate"
  /\ IF ~Truthy(params.domainName)
       THEN error' = ErrDomainName /\ pc' = "failed"
     ELSE IF ~Truthy(params.adminPassword)
       THEN error' = ErrAdminPassword /\ pc' = "failed"
     ELSE error' = error /\ pc' = "dispatch"
  /\ UNCHANGED <<ctx, env, params, stacks, props, graph, outputs, now, run, prev, sh>>

\* lines 35-83
DispatchComplete ==
  /\ pc = "dispatch"
  /\ params.deploymentMode = "complete"
  /\ params' = ResolveInfrastructure(params, ctx, env)
  /\ props' = InfrastructureProps(CompleteStackId, params', env, TRUE)
  /\ stacks' = Append(stacks, CompleteStackId)
  /\ pc' = "createVpc"
  /\ UNCHANGED <<ctx, env, graph, outputs, error, now, run, prev, sh>>

\* lines 85-135
DispatchInfrastructureOnly ==
  /\ pc = "dispatch"
  /\ params.deploymentMode = "infrastructure-only"
  /\ params' = ResolveInfrastructure(params, ctx, env)
  /\ props' = InfrastructureProps(InfrastructureStackId, params', env, FALSE)
  /\ stacks' = Append(stacks, InfrastructureStackId)
  /\ pc' = "createVpc"
  /\ UNCHANGED <<ctx, env, graph, outputs, error, now, run, prev, sh>>

\* lines 137-158 without the efsFileSystemId check
DispatchApplicationOnlyUnchecked ==
  /\ pc = "dispatch"
  /\ params.deploymentMode = "application-only"
  /\ props' = MicroservicesProps(MicroservicesStackId, params, env)
  /\ stacks' = Append(stacks, MicroservicesStackId)
  /\ pc' = "setupCertificate"
  /\ UNCHANGED <<ctx, env, params, graph, outputs, error, now, run, prev, sh>>

\* lines 137-158
DispatchApplicationOnly ==
  /\ pc = "dispatch"
  /\ params.deploymentMode = "application-only"
  /\ IF ~Truthy(params.efsFileSystemId)
       THEN /\ error' = ErrEfsFileSystemId
            /\ pc' = "failed"
            /\ UNCHANGED <<props, stacks>>
       ELSE /\ props' = MicroservicesProps(MicroservicesStackId, params, env)
            /\ stacks' = Append(stacks, MicroservicesStackId)
            /\ pc' = "setupCertificate"
            /\ error' = error
  /\ UNCHANGED <<ctx, env, params, graph, outputs, now, run, prev, sh>>

\* lines 160-162
DispatchInvalid ==
  /\ pc = "dispatch"
  /\ params.deploymentMode \notin ValidModes
  /\ error' = ErrInvalidMode(params.deploymentMode)
  /\ pc' = "failed"
  /\ UNCHANGED <<ctx, env, params, stacks, props, graph, outputs, now, run, prev, sh>>

(***************************************************************************)
(* Constructor of McpgwCompleteInfrastructureStack, one action per method  *)
(* it calls.  A method that throws ends the run.                           *)
(***************************************************************************)
\* the method at position `at` creates rs and outs, then control is at nxt
StackStep(at, rs, outs, nxt) ==
  /\ pc = at
  /\ LET out == Emit(graph, rs)
     IN  /\ graph' = out.graph
         /\ error' = out.err
         /\ outputs' = IF out.err = "" THEN outputs \o outs ELSE outputs
         /\ pc' = IF out.err = "" THEN nxt ELSE "failed"
  /\ UNCHANGED <<ctx, env, params, stacks, props, now, run, prev, sh>>

CreateVpc ==
  StackStep("createVpc", CreateVpcResources(props), << >>, "createEfsFileSystem")

CreateEfsFileSystem ==
  StackStep("createEfsFileSystem", CreateEfsFileSystemResources(props), << >>,
            "createEksCluster")

CreateEksCluster ==
  StackStep("createEksCluster", CreateEksClusterResources(props), << >>,
            "createCertificate")

CreateCertificate ==
  StackStep("createCertificate", CreateCertificateResources(props),
            CreateCertificateOutputs(props), "createCognitoUserPool")

CreateCognitoUserPool ==
  StackStep("createCognitoUserPool", CreateCognitoUserPoolResources(props), << >>,
            "installCoreEksAddons")

InstallCoreEksAddons ==
  StackStep("installCoreEksAddons", InstallCoreEksAddonsResources(props.stackName),
            << >>, "installAwsLoadBalancerController")

InstallAwsLoadBalancerController ==
  StackStep("installAwsLoadBalancerController",
            InstallAwsLoadBalancerControllerResources(props.stackName), << >>,
            "installEfsCsiDriver")

\* installEfsCsiDriver followed by the application steps whatever
\* props.deployApplications is
InstallEfsCsiDriverThenApplications ==
  StackStep("installEfsCsiDriver", InstallEfsCsiDriverResources(props.stackName),
            << >>, "createRequiredNamespaces")

\* installEfsCsiDriver, then the test props.deployApplications !== false
InstallEfsCsiDriver ==
  StackStep("installEfsCsiDriver", InstallEfsCsiDriverResources(props.stackName),
            << >>,
            IF props.deployApplications THEN "createRequiredNamespaces"
            ELSE "createOutputs")

CreateRequiredNamespaces ==
  StackStep("createRequiredNamespaces",
            Using(CreateRequiredNamespacesResources, {"McpCluster"}), << >>,
            "addApplicationFargateProfiles")

AddApplicationFargateProfiles ==
  StackStep("addApplicationFargateProfiles", AddApplicationFargateProfilesResources,
            << >>, "enableContainerInsights")

EnableContainerInsights ==
  StackStep("enableContainerInsights",
            EnableContainerInsightsResources(props.stackName, props.region), << >>,
            "deployMcpGatewayMicroservices")

\* Date.now() does not go back
ClockValues == {t \in 1..MaxClock : t >= now}

\* deployMcpGatewayMicroservices: Math.random() and Date.now() are called
\* only when the constructs before them were created
DeployMcpGatewayMicroservices ==
  /\ pc = "deployMcpGatewayMicroservices"
  /\ LET first == Emit(graph, DeployMcpGatewayStorage)
     IN  IF first.err # ""
         THEN /\ graph' = first.graph
              /\ error' = first.err
              /\ pc' = "failed"
              /\ now' = now
         ELSE \E secretKey \in SecretKeys, clock \in ClockValues :
                LET out == Emit(first.graph,
                                DeployMcpGatewayWorkloads(props, secretKey, clock))
                IN  /\ graph' = out.graph
                    /\ error' = out.err
                    /\ pc' = IF out.err = "" THEN "createOutputs" ELSE "failed"
                    /\ now' = clock
  /\ UNCHANGED <<ctx, env, params, stacks, props, outputs, run, prev, sh>>

CreateOutputs ==
  StackStep("createOutputs", << >>, CompleteOutputs(props), "done")

(***************************************************************************)
(* Constructor of McpgwMicroservicesCdkStack.                              *)
(***************************************************************************)
SetupCertificate ==
  /\ pc = "setupCertificate"
  /\ LET c == SetupCertificateResult(props)
         out == Emit(graph, c.resources)
         err == IF c.err # "" THEN c.err ELSE out.err
     IN  /\ graph' = out.graph
         /\ error' = err
         /\ outputs' = IF err = "" THEN outputs \o c.outputs ELSE outputs
         /\ pc' = IF err = "" THEN "deployMicroservicesArchitecture" ELSE "failed"
  /\ UNCHANGED <<ctx, env, params, stacks, props, now, run, prev, sh>>

DeployMicroservicesArchitecture ==
  /\ pc = "deployMicroservicesArchitecture"
  /\ LET first == Emit(graph, DeployMicroservicesStorage(props))
     IN  IF first.err # ""
         THEN /\ graph' = first.graph
              /\ error' = first.err
              /\ pc' = "failed"
              /\ now' = now
         ELSE \E secretKey \in SecretKeys, clock \in ClockValues :
                LET out == Emit(first.graph,
                                DeployMicroservicesWorkloads(props, env, secretKey,
                                                             clock))
                IN  /\ graph' = out.graph
                    /\ error' = out.err
                    /\ pc' = IF out.err = "" THEN "createMicroservicesOutputs"
                             ELSE "failed"
                    /\ now' = clock
  /\ UNCHANGED <<ctx, env, params, stacks, props, outputs, run, prev, sh>>

CreateMicroservicesOutputs ==
  StackStep("createMicroservicesOutputs", << >>, MicroservicesOutputs(props), "done")

(***************************************************************************)
(* Running the entry point again (a second `cdk synth`): with the same     *)
(* context and environment, or with the deployment mode switched from      *)
(* infrastructure-only to complete and everything else kept.               *)
(***************************************************************************)
Finished == pc \in {"done", "failed"}

\* what is kept of a finished run
Result ==
  [run |-> run, ctx |-> ctx, env |-> env, mode |-> params.deploymentMode,
   params |-> params, pc |-> pc, stacks |-> stacks, graph |-> graph,
   outputs |-> outputs, error |-> error]

Restart ==
  /\ Finished
  /\ run < MaxRuns
  /\ prev' = Result
  /\ sh' = sh
  /\ run' = run + 1
  /\ pc' = "start"
  /\ params' = NoParams
  /\ stacks' = << >>
  /\ props' = NoProps
  /\ graph' = << >>
  /\ outputs' = << >>
  /\ error' = ""
  /\ now' = now

Rerun == Restart /\ UNCHANGED <<ctx, env>>

RerunComplete ==
  /\ Restart
  /\ pc = "done"
  /\ params.deploymentMode = "infrastructure-only"
  /\ ctx' = [ctx EXCEPT !.deploymentMode = "complete"]
  /\ env' = env

Next ==
  \/ ResolveParameters
  \/ ValidateRequired
  \/ DispatchComplete
  \/ DispatchInfrastructureOnly
  \/ DispatchApplicationOnly
  \/ DispatchInvalid
  \/ CreateVpc
  \/ CreateEfsFileSystem
  \/ CreateEksCluster
  \/ CreateCertificate
  \/ CreateCognitoUserPool
  \/ InstallCoreEksAddons
  \/ InstallAwsLoadBalancerController
  \/ InstallEfsCsiDriver
  \/ CreateRequiredNamespaces
  \/ AddApplicationFargateProfiles
  \/ EnableContainerInsights
  \/ DeployMcpGatewayMicroservices
  \/ CreateOutputs
  \/ SetupCertificate
  \/ DeployMicroservicesArchitecture
  \/ CreateMicroservicesOutputs
  \/ Rerun
  \/ RerunComplete

Spec == Init /\ [][Next]_vars

(***************************************************************************)
(* McpgwMicroservicesCdkStack constructed on its own, as the unit tests    *)
(* do: new McpgwMicroservicesCdkStack(app, 'MyTestStack', props) with any  *)
(* props of the interface; an absent optional prop is "" (FALSE for        *)
(* createCertificate).                                                     *)
(***************************************************************************)
TestStackId == "MyTestStack"

\* McpgwMicroservicesCdkStackProps; the stack's region is a token when the
\* props give no env
StackPropsSpace ==
  [stackName           : {TestStackId},
   clusterName         : {"", "test-cluster"},
   domainName          : {"", "test.example.com"},
   efsFileSystemId     : {"", "fs-test123"},
   certificateArn      : {"", "arn:aws:acm:us-east-1:123456789012:certificate/test"},
   adminPassword       : {"", "test-password"},
   adminUser           : {"", "root"},
   hostedZoneId        : {"", "Z-TEST"},
   createCertificate   : BOOLEAN,
   cognitoClientId     : {""},
   cognitoClientSecret : {"", "props-client-secret"},
   cognitoUserPoolId   : {""},
   region              : {"${AWS::Region}"}]

\* no context key is set
NoCtx == CHOOSE c \in CtxSpace : KeysSet(c) = 0

\* no environment variable the program reads is set
NoEnv ==
  MkEnv(CHOOSE r \in EnvRequiredSpace :
          /\ r.deploymentMode = "" /\ r.domainName = ""
          /\ r.adminPassword = "" /\ r.efsFileSystemId = "",
        CHOOSE o \in EnvOptionalSpace : OptionalSet(o) = 0)

\* process.env of the test run: the constructor reads only COGNITO_*
TestEnvSpace == {NoEnv, [NoEnv EXCEPT !.cognitoClientSecret = "env-client-secret"]}

InitStack ==
  /\ ctx = NoCtx
  /\ env \in TestEnvSpace
  /\ pc = "setupCertificate"
  /\ params = NoParams
  /\ stacks = <<TestStackId>>
  /\ props \in StackPropsSpace
  /\ graph = << >>
  /\ outputs = << >>
  /\ error = ""
  /\ now = 1
  /\ run = 1
  /\ prev = NoPrev
  /\ sh = NoShell

NextStack ==
  \/ SetupCertificate
  \/ DeployMicroservicesArchitecture
  \/ CreateMicroservicesOutputs

SpecStack == InitStack /\ [][NextStack]_vars

(***************************************************************************)
(* deploy.sh.  The script state sh is a record: the positional parameters  *)
(* left (argv), COMMAND and AWS_PROFILE of the argument loop, the          *)
(* arguments and the local `command` of main, the tools on the PATH, the   *)
(* .env file, the namespaces of the cluster kubectl talks to, the external *)
(* commands run so far (ran), the functions of the script that have        *)
(* returned (done), the list printed for missing configuration, the last   *)
(* message (out) and the exit status (-1 while the script runs); line     *)
(* keeps the command line as it was given.                                 *)
(***************************************************************************)
\* at most this many words on the command line
MaxArgs == 3
\* at most this many inputs beyond the four required environment variables
\* when the entry point is run by the script
MaxScriptOverrides == 1

\* the words the argument loop knows (line 29)
CommandWords ==
  {"synth", "deploy", "destroy", "diff", "status", "monitor", "logs", "help"}

\* words of a command line: commands, the option, a profile or service name
ArgWords == CommandWords \cup {"--profile", "staging", "auth-server"}

RECURSIVE SeqsUpTo(_, _)
\* the sequences over S of length at most n
SeqsUpTo(S, n) ==
  IF n = 0 THEN {<< >>}
  ELSE LET shorter == SeqsUpTo(S, n - 1)
       IN  shorter \cup {Append(q, w) : q \in shorter, w \in S}

\* the tools check_prerequisites tests, and the one the script uses untested
CheckedTools == <<"node", "cdk", "kubectl", "aws">>

AllTools == {"node", "cdk", "kubectl", "aws", "jq"}

\* everything installed, or one tool missing
ToolSets == {AllTools} \cup {AllTools \ {t} : t \in AllTools}

\* the .env file: absent, or with two assignments
NoDotEnv == [present |-> FALSE, vars |-> {}]

DotEnvFiles ==
  {NoDotEnv,
   [present |-> TRUE,
    vars |-> {<<"deploymentMode", "application-only">>,
              <<"domainName", "dotenv.example.com">>}]}

\* export $(cat .env | grep -v '^#' | xargs): the assignments of the file
\* replace the variables of the environment
Export(e, d) ==
  [k \in DOMAIN e |->
     IF \E a \in d.vars : a[1] = k THEN (CHOOSE a \in d.vars : a[1] = k)[2] ELSE e[k]]

\* the namespace check_status, monitor_deployment and show_logs look into
ScriptNamespace == "kubeflow-user-example-com"

\* the namespaces of the cluster: none of interest, the one an application-only
\* deployment creates, the one the script looks for, or both, as a complete
\* deployment creates them
ClusterStates ==
  {{}, {McpNamespace}, {ScriptNamespace}, {McpNamespace, ScriptNamespace}}

\* answers to the question of destroy_stack
Responses == {"y", "Yes", "n", ""}

\* ^([yY][eE][sS]|[yY])$
Confirms(response) ==
  response \in {"y", "Y", "yes", "yeS", "yEs", "yES", "Yes", "YeS", "YEs", "YES"}

ShellStart(pcv, argv, args, tools, dotenv, namespaces) ==
  [pc |-> pcv, line |-> argv, argv |-> argv, COMMAND |-> "", AWS_PROFILE |-> "",
   args |-> args,
   command |-> "", tools |-> tools, dotenv |-> dotenv, namespaces |-> namespaces,
   ran |-> << >>, done |-> << >>, missing |-> << >>, notice |-> "", out |-> "",
   status |-> -1]

\* the script ends with this status and message
Exit(s, status, out) == [s EXCEPT !.pc = "exit", !.status = status, !.out = out]

\* lines 21-40: one turn of the argument loop; `shift 2` with a single
\* parameter left fails, and set -e ends the script
ParseArgument ==
  /\ sh.pc = "parse"
  /\ sh.argv # << >>
  /\ LET word == Head(sh.argv)
     IN  IF word = "--profile"
         THEN IF Len(sh.argv) >= 2
              THEN sh' = [sh EXCEPT !.AWS_PROFILE = sh.argv[2],
                                    !.argv = Tail(Tail(sh.argv))]
              ELSE sh' = Exit(sh, 1, "")
         ELSE IF word \in CommandWords
         THEN sh' = [sh EXCEPT !.COMMAND = word, !.argv = Tail(sh.argv)]
         ELSE sh' = [sh EXCEPT !.COMMAND = IF sh.COMMAND = "" THEN word ELSE sh.COMMAND,
                               !.argv = Tail(sh.argv)]
  /\ UNCHANGED <<ctx, env, pc, params, stacks, props, graph, outputs, error, now, run, prev>>

\* lines 43-45, after the loop
SetDefaultCommand ==
  /\ sh.pc = "parse"
  /\ sh.argv = << >>
  /\ sh' = [sh EXCEPT !.COMMAND = IF sh.COMMAND = "" THEN "help" ELSE sh.COMMAND,
                      !.pc = "callMain"]
  /\ UNCHANGED <<ctx, env, pc, params, stacks, props, graph, outputs, error, now, run, prev>>

\* line 397: main "$@" with the positional parameters the loop has left
CallMain ==
  /\ sh.pc = "callMain"
  /\ sh' = [sh EXCEPT !.args = sh.argv, !.pc = "main"]
  /\ UNCHANGED <<ctx, env, pc, params, stacks, props, graph, outputs, error, now, run, prev>>

\* lines 312-353: local command=${1:-help} and the case on it
HandlerOf(command) ==
  IF command \in {"synth", "deploy", "destroy", "diff"} THEN "checkPrerequisites"
  ELSE IF command = "status" THEN "checkStatus"
  ELSE IF command = "monitor" THEN "monitorDeployment"
  ELSE IF command = "logs" THEN "showLogs"
  ELSE "help"

Main ==
  /\ sh.pc = "main"
  /\ LET command == IF sh.args = << >> \/ Head(sh.args) = "" THEN "help"
                    ELSE Head(sh.args)
     IN  sh' = [sh EXCEPT !.command = command, !.pc = HandlerOf(command)]
  /\ UNCHANGED <<ctx, env, pc, params, stacks, props, graph, outputs, error, now, run, prev>>

\* lines 353-392
ShowHelp ==
  /\ sh.pc = "help"
  /\ sh' = Exit(sh, 0, "help")
  /\ UNCHANGED <<ctx, env, pc, params, stacks, props, graph, outputs, error, now, run, prev>>

\* the entry-point variables a step of the script leaves alone
EntryVars == <<ctx, pc, params, stacks, props, graph, outputs, error, now, run, prev>>

\* lines 81-109: the first tool that is missing ends the script
MissingTools(tools) == {i \in 1..Len(CheckedTools) : CheckedTools[i] \notin tools}

CheckPrerequisites ==
  /\ sh.pc = "checkPrerequisites"
  /\ LET missing == MissingTools(sh.tools)
     IN  IF missing # {}
         THEN sh' = Exit(sh, 1,
                         CheckedTools[CHOOSE i \in missing : \A j \in missing : i <= j]
                           \o " is not installed")
         ELSE sh' = [sh EXCEPT !.done = Append(@, "check_prerequisites"),
                               !.pc = IF sh.command = "destroy" THEN "destroyStack"
                                      ELSE "loadConfig"]
  /\ UNCHANGED <<env, EntryVars>>

\* ${DEPLOYMENT_MODE:-complete}
ScriptMode(e) == IF e.deploymentMode = "" THEN "complete" ELSE e.deploymentMode

\* the modes load_config accepts (lines 122-131)
ScriptModes == {"complete", "application-only"}

\* lines 112-132: the .env file is exported, then the mode is tested
LoadConfig ==
  /\ sh.pc = "loadConfig"
  /\ env' = IF sh.dotenv.present THEN Export(env, sh.dotenv) ELSE env
  /\ IF ScriptMode(env') \in ScriptModes
     THEN sh' = [sh EXCEPT !.done = Append(@, "load_config"), !.pc = "validateConfig"]
     ELSE sh' = Exit(sh, 1, "Invalid DEPLOYMENT_MODE: " \o ScriptMode(env')
                              \o ". Use 'complete' or 'application-only'")
  /\ UNCHANGED EntryVars

\* $(cat cdk.context.json 2>/dev/null | jq -r '.key // empty'): the value of
\* the context file, or nothing when jq is not installed
ContextFileValue(tools, value) == IF "jq" \in tools THEN value ELSE ""

\* the entries of missing_vars, in the order they are added (lines 142-155)
MissingVars(tools, c, e) ==
     (IF e.domainName = "" /\ ContextFileValue(tools, c.domainName) = ""
      THEN <<"DOMAIN_NAME">> ELSE << >>)
  \o (IF e.adminPassword = "" /\ ContextFileValue(tools, c.adminPassword) = ""
      THEN <<"ADMIN_PASSWORD">> ELSE << >>)
  \o (IF /\ ScriptMode(e) = "application-only"
         /\ e.efsFileSystemId = ""
         /\ ContextFileValue(tools, c.efsFileSystemId) = ""
      THEN <<"EFS_FILE_SYSTEM_ID (required for application-only mode)">>
      ELSE << >>)

\* lines 167-187: what is said about the certificate
CertificateNotice(tools, c, e) ==
  LET has_cert_arn ==
        e.certificateArn # "" \/ ContextFileValue(tools, c.certificateArn) # ""
      has_create_cert ==
        \/ e.createCertificate = "true"
        \/ ContextFileValue(tools, c.createCertificate) = "true"
  IN  IF has_cert_arn \/ has_create_cert THEN ""
      ELSE IF ScriptMode(e) = "complete" THEN "status: will create new certificate"
      ELSE "warning: will create new certificate"

\* lines 135-190
ValidateConfig ==
  /\ sh.pc = "validateConfig"
  /\ LET missing == MissingVars(sh.tools, ctx, env)
     IN  IF missing # << >>
         THEN sh' = [Exit(sh, 1, "Missing required configuration:") EXCEPT
                       !.missing = missing]
         ELSE sh' = [sh EXCEPT !.notice = CertificateNotice(sh.tools, ctx, env),
                               !.out = "Configuration is valid",
                               !.done = Append(@, "validate_config"),
                               !.pc = "installDependencies"]
  /\ UNCHANGED <<env, EntryVars>>

\* lines 193-197: npm install succeeds or fails
InstallDependencies ==
  /\ sh.pc = "installDependencies"
  /\ \E ok \in BOOLEAN :
       LET s == [sh EXCEPT !.ran = Append(@, "npm install")]
       IN  IF ok
           THEN sh' = [s EXCEPT !.done = Append(@, "install_dependencies"),
                                !.pc = IF sh.command = "diff" THEN "showDiff"
                                       ELSE "synthStack"]
           ELSE sh' = Exit(s, 1, "")
  /\ UNCHANGED <<env, EntryVars>>

\* lines 200-203: cdk synth starts the entry point of the CDK application
SynthStack ==
  /\ sh.pc = "synthStack"
  /\ pc = "notStarted"
  /\ pc' = "start"
  /\ sh' = [sh EXCEPT !.ran = Append(@, "cdk synth"), !.pc = "cdkSynth"]
  /\ UNCHANGED <<ctx, env, params, stacks, props, graph, outputs, error, now, run, prev>>

\* synth_stack going on whatever cdk synth returned
SynthReturnsIgnoringFailure ==
  /\ sh.pc = "cdkSynth"
  /\ Finished
  /\ sh' = [sh EXCEPT !.done = Append(@, "synth_stack"),
                      !.out = "CDK synthesis completed",
                      !.pc = IF sh.command = "deploy" THEN "deployStack" ELSE "exit",
                      !.status = IF sh.command = "deploy" THEN -1 ELSE 0]
  /\ UNCHANGED <<env, EntryVars>>

\* lines 203-204, 320-328: cdk synth has ended; it fails when the entry
\* point has thrown, and may fail for a reason of its own
SynthReturns ==
  /\ sh.pc = "cdkSynth"
  /\ Finished
  /\ \E ok \in BOOLEAN :
       IF ok /\ pc = "done"
       THEN sh' = [sh EXCEPT !.done = Append(@, "synth_stack"),
                             !.out = "CDK synthesis completed",
                             !.pc = IF sh.command = "deploy" THEN "deployStack"
                                    ELSE "exit",
                             !.status = IF sh.command = "deploy" THEN -1 ELSE 0]
       ELSE sh' = Exit(sh, 1, "")
  /\ UNCHANGED <<env, EntryVars>>

\* lines 208-213, 328-331: cdk deploy succeeds or fails
DeployStack ==
  /\ sh.pc = "deployStack"
  /\ \E ok \in BOOLEAN :
       LET s == [sh EXCEPT !.ran = Append(@, "cdk deploy")]
       IN  IF ok
           THEN sh' = Exit([s EXCEPT !.done = Append(@, "deploy_stack")], 0,
                           "Deployment completed!")
           ELSE sh' = Exit(s, 1, "")
  /\ UNCHANGED <<env, EntryVars>>

\* lines 216-220: cdk diff succeeds or fails
ShowDiff ==
  /\ sh.pc = "showDiff"
  /\ \E ok \in BOOLEAN :
       sh' = Exit([sh EXCEPT !.ran = Append(@, "cdk diff")], IF ok THEN 0 ELSE 1, "")
  /\ UNCHANGED <<env, EntryVars>>

\* lines 223-234: read fails at the end of input; cdk destroy succeeds or fails
DestroyStack ==
  /\ sh.pc = "destroyStack"
  /\ \/ sh' = Exit(sh, 1, "")
     \/ \E response \in Responses, ok \in BOOLEAN :
          IF Confirms(response)
          THEN sh' = Exit([sh EXCEPT !.ran = Append(@, "cdk destroy")],
                          IF ok THEN 0 ELSE 1,
                          IF ok THEN "CDK stack destroyed" ELSE "")
          ELSE sh' = Exit(sh, 0, "Destroy cancelled")
  /\ UNCHANGED <<env, EntryVars>>

\* lines 237-274: kubectl get namespace, then pods, services and ingress of
\* the namespace; a failing kubectl get ends the script
CheckStatus ==
  /\ sh.pc = "checkStatus"
  /\ IF ScriptNamespace \in sh.namespaces
     THEN \E ok \in BOOLEAN, running \in BOOLEAN :
            LET s == [sh EXCEPT !.ran = Append(@, "kubectl get pods -n "
                                                    \o ScriptNamespace)]
            IN  IF ~ok THEN sh' = Exit(s, 1, "Namespace exists")
                ELSE sh' = Exit(s, 0, IF running THEN "Registry service is running"
                                      ELSE "Registry service is not ready yet")
     ELSE sh' = Exit(sh, 0, "Namespace not found. Stack may not be deployed.")
  /\ UNCHANGED <<env, EntryVars>>

\* lines 277-301: one turn of the endless loop
MonitorDeployment ==
  /\ sh.pc = "monitorDeployment"
  /\ sh' = [sh EXCEPT !.out = IF ScriptNamespace \in sh.namespaces THEN "Pods:"
                              ELSE "Namespace not found"]
  /\ UNCHANGED <<env, EntryVars>>

\* lines 304-308: local service=${2:-registry}; kubectl logs fails without
\* the namespace, and may fail with it
ShowLogs ==
  /\ sh.pc = "showLogs"
  /\ \E ok \in BOOLEAN :
     LET service == IF Len(sh.args) >= 2 /\ sh.args[2] # "" THEN sh.args[2]
                    ELSE "registry"
     IN  sh' = Exit([sh EXCEPT !.ran = Append(@, "kubectl logs -f deployment/"
                                                  \o service \o " -n "
                                                  \o ScriptNamespace)],
                    IF ScriptNamespace \in sh.namespaces /\ ok THEN 0 ELSE 1, "")
  /\ UNCHANGED <<env, EntryVars>>

\* the constructors the entry point runs
Constructors ==
  \/ CreateVpc
  \/ CreateEfsFileSystem
  \/ CreateEksCluster
  \/ CreateCertificate
  \/ CreateCognitoUserPool
  \/ InstallCoreEksAddons
  \/ InstallAwsLoadBalancerController
  \/ InstallEfsCsiDriver
  \/ CreateRequiredNamespaces
  \/ AddApplicationFargateProfiles
  \/ EnableContainerInsights
  \/ DeployMcpGatewayMicroservices
  \/ CreateOutputs
  \/ SetupCertificate
  \/ DeployMicroservicesArchitecture
  \/ CreateMicroservicesOutputs

\* the entry point, from its first statement to its return or throw; under
\* Spec it only leaves the script state alone
EntryPoint ==
  \/ ResolveParameters
  \/ ValidateRequired
  \/ DispatchComplete
  \/ DispatchInfrastructureOnly
  \/ DispatchApplicationOnly
  \/ DispatchInvalid
  \/ Constructors

\* the state of the CDK application before cdk has started it
InitNotStarted ==
  /\ pc = "notStarted"
  /\ params = NoParams
  /\ stacks = << >>
  /\ props = NoProps
  /\ graph = << >>
  /\ outputs = << >>
  /\ error = ""
  /\ now = 1
  /\ run = 1
  /\ prev = NoPrev

(***************************************************************************)
(* deploy.sh run from the command line: ./deploy.sh WORD ...               *)
(***************************************************************************)
InitScript ==
  /\ InitNotStarted
  /\ ctx = NoCtx
  /\ env = NoEnv
  /\ \E argv \in SeqsUpTo(ArgWords, MaxArgs) :
       sh = ShellStart("parse", argv, << >>, AllTools, NoDotEnv, {})

NextScript ==
  \/ ParseArgument
  \/ SetDefaultCommand
  \/ CallMain
  \/ Main
  \/ ShowHelp

SpecScript == InitScript /\ [][NextScript]_vars

(***************************************************************************)
(* main of deploy.sh called with a command word, which is what each of its *)
(* handlers is written for.  The configuration varies for the commands     *)
(* that read it, the tools for those that check them, the cluster for      *)
(* those that look into it.                                                *)
(***************************************************************************)
\* context keys and environment variables the script or its claims look at
ScriptKeysOnly(c) ==
  /\ c.clusterName = "" /\ c.hostedZoneId = "" /\ c.vpcCidr = ""
  /\ c.maxAzs = << >> /\ c.kubernetesVersion = ""

ScriptVarsOnly(o) ==
  OptionalSet(o) = B2N(o.certificateArn # "") + B2N(o.createCertificate # "")

\* arguments of main
MainArgs ==
  {<< >>, <<"logs", "auth-server">>} \cup {<<w>> : w \in CommandWords \cup {"staging"}}

ReadsConfiguration(args) == args # << >> /\ Head(args) \in {"synth", "deploy", "diff"}

ChecksTools(args) == ReadsConfiguration(args) \/ args = <<"destroy">>

UsesCluster(args) == args # << >> /\ Head(args) \in {"status", "monitor", "logs"}

InitMain ==
  /\ InitNotStarted
  /\ \E args \in MainArgs :
       /\ IF ReadsConfiguration(args)
          THEN \E k \in 0..MaxScriptOverrides :
                 /\ ctx \in {c \in CtxWith[k] : ScriptKeysOnly(c)}
                 /\ \E r \in EnvRequiredSpace,
                       o \in {v \in EnvOptionalUpTo[MaxScriptOverrides - k] :
                                ScriptVarsOnly(v)} :
                      env = MkEnv(r, o)
          ELSE ctx = NoCtx /\ env = NoEnv
       /\ \E tools \in IF ChecksTools(args) THEN ToolSets ELSE {AllTools},
             dotenv \in IF ReadsConfiguration(args) THEN DotEnvFiles ELSE {NoDotEnv},
             namespaces \in IF UsesCluster(args) THEN ClusterStates ELSE {{}} :
            sh = ShellStart("main", << >>, args, tools, dotenv, namespaces)

NextMain ==
  \/ Main
  \/ CheckPrerequisites
  \/ LoadConfig
  \/ ValidateConfig
  \/ InstallDependencies
  \/ SynthStack
  \/ EntryPoint
  \/ SynthReturns
  \/ DeployStack
  \/ ShowDiff
  \/ DestroyStack
  \/ CheckStatus
  \/ MonitorDeployment
  \/ ShowLogs
  \/ ShowHelp

SpecMain == InitMain /\ [][NextMain]_vars

(***************************************************************************)
(* Properties.                                                             *)
(***************************************************************************)
\* the parameters of lines 17-24 as the current context and environment
\* resolve them
Resolved == ResolveCommon(ctx, env)

BeforeDispatch == pc \in {"start", "validate", "failed"}

\* C1: for every deployment mode value, valid or not, when domainName or
\* adminPassword resolves to empty the run never gets past validation: no
\* stack is instantiated, nothing is emitted, and the run ends failed with the
\* error that names the missing parameter (domainName is tested first).
RequiredParametersChecked ==
  (Resolved.domainName = "" \/ Resolved.adminPassword = "") =>
    /\ BeforeDispatch
    /\ stacks = << >>
    /\ graph = << >>
    /\ outputs = << >>
    /\ pc = "failed" =>
         error = IF Resolved.domainName = "" THEN ErrDomainName ELSE ErrAdminPassword

\* a run with an invalid deployment mode and no admin password has failed
\* with the adminPassword error
MissingAdminPasswordRejected ==
  /\ pc = "failed"
  /\ error = ErrAdminPassword
  /\ Resolved.deploymentMode \notin ValidModes
  /\ Resolved.domainName # ""
  /\ stacks = << >>

\* C2: in application-only mode an empty efsFileSystemId ends the run failed,
\* McpgwMicroservicesCdkStack is never instantiated, and the error is the
\* efsFileSystemId error once domainName and adminPassword have passed
\* validation; in complete and infrastructure-only mode the efsFileSystemId
\* error is never raised, whatever efsFileSystemId is.
EfsFileSystemIdRequiredForApplicationOnly ==
  /\ (Resolved.deploymentMode = "application-only" /\ Resolved.efsFileSystemId = "") =>
       /\ pc \in {"start", "validate", "dispatch", "failed"}
       /\ stacks = << >>
       /\ graph = << >>
       /\ (pc = "failed" /\ Resolved.domainName # "" /\ Resolved.adminPassword # "") =>
            error = ErrEfsFileSystemId
  /\ Resolved.deploymentMode \in {"complete", "infrastructure-only"} =>
       error # ErrEfsFileSystemId
  /\ error = ErrEfsFileSystemId =>
       Resolved.deploymentMode = "application-only" /\ Resolved.efsFileSystemId = ""

\* an application-only run without efsFileSystemId has failed with the
\* efsFileSystemId error
MissingEfsFileSystemIdRejected ==
  /\ pc = "failed"
  /\ error = ErrEfsFileSystemId
  /\ Resolved.deploymentMode = "application-only"
  /\ Resolved.efsFileSystemId = ""
  /\ stacks = << >>

\* the required parameters of the resolved mode are present
RequiredPresent ==
  /\ Resolved.domainName # ""
  /\ Resolved.adminPassword # ""
  /\ Resolved.deploymentMode = "application-only" => Resolved.efsFileSystemId # ""

\* C3: with domainName and adminPassword present, a deployment mode other
\* than the three valid ones ends the run with the invalid-mode error and no
\* stack; with the required parameters present each valid mode ends the run
\* with exactly one stack constructed.
EveryModeDispatched ==
  RequiredPresent =>
    /\ Resolved.deploymentMode \notin ValidModes =>
         /\ stacks = << >>
         /\ Finished => pc = "failed" /\ error = ErrInvalidMode(Resolved.deploymentMode)
    /\ Resolved.deploymentMode \in ValidModes =>
         /\ Len(stacks) <= 1
         /\ Finished => pc = "done" /\ Len(stacks) = 1 /\ error = ""

\* the first non-empty of the context value c, the environment value e and
\* the default d
FirstNonEmpty(c, e, d) == IF c # "" THEN c ELSE IF e # "" THEN e ELSE d

\* C4: once resolved, each of deploymentMode, clusterName, domainName,
\* efsFileSystemId, certificateArn, adminPassword and hostedZoneId is the
\* context value if non-empty, else the environment value if non-empty, else
\* its default (complete, mcp-gateway-registry, or empty); in complete and
\* infrastructure-only mode the same holds of vpcCidr (10.0.0.0/16), of
\* kubernetesVersion (1.28) and of maxAzs (3), maxAzs being the integer parsed
\* from the winning source.
FirstNonEmptySourceWins ==
  /\ pc # "start" =>
       /\ params.deploymentMode =
            FirstNonEmpty(ctx.deploymentMode, env.deploymentMode, "complete")
       /\ params.clusterName =
            FirstNonEmpty(ctx.clusterName, env.clusterName, "mcp-gateway-registry")
       /\ params.domainName = FirstNonEmpty(ctx.domainName, env.domainName, "")
       /\ params.efsFileSystemId =
            FirstNonEmpty(ctx.efsFileSystemId, env.efsFileSystemId, "")
       /\ params.certificateArn =
            FirstNonEmpty(ctx.certificateArn, env.certificateArn, "")
       /\ params.adminPassword = FirstNonEmpty(ctx.adminPassword, env.adminPassword, "")
       /\ params.hostedZoneId = FirstNonEmpty(ctx.hostedZoneId, env.hostedZoneId, "")
  /\ props.stackName \in {CompleteStackId, InfrastructureStackId} =>
       /\ params.vpcCidr = FirstNonEmpty(ctx.vpcCidr, env.vpcCidr, "10.0.0.0/16")
       /\ params.kubernetesVersion =
            FirstNonEmpty(ctx.kubernetesVersion, env.kubernetesVersion, "1.28")
       /\ params.maxAzs =
            ParseInt(IF ctx.maxAzs # << >> THEN ctx.maxAzs
                     ELSE IF env.maxAzs # << >> THEN env.maxAzs ELSE <<"3">>)
       /\ (ctx.maxAzs = << >> /\ env.maxAzs = << >>) => params.maxAzs = 3

\* a parameter given both in the context and in the environment has resolved
\* to the context value, and another given in neither to its default
ContextBeatsEnvironment ==
  /\ pc = "createVpc"
  /\ ctx.vpcCidr # "" /\ env.vpcCidr # ""
  /\ params.vpcCidr = ctx.vpcCidr
  /\ params.vpcCidr # env.vpcCidr
  /\ params.clusterName = "mcp-gateway-registry"

\* a previous run of the same context and environment is on record
SameInputsAsBefore == prev.run >= 1 /\ prev.ctx = ctx /\ prev.env = env

\* C5: two finished runs with the same context and the same environment have
\* emitted the same resources with the same payloads, and the same outputs.
RunsAreDeterministic ==
  (SameInputsAsBefore /\ Finished) =>
    /\ pc = prev.pc
    /\ error = prev.error
    /\ graph = prev.graph
    /\ outputs = prev.outputs

\* name and edges of a resource: what the two modes are to agree on
Node(r) ==
  [id |-> r.id, via |-> r.via, kind |-> r.kind, ns |-> r.ns, name |-> r.name,
   uses |-> r.uses, deps |-> r.deps]

\* the previous run was infrastructure-only and this one is complete, with
\* every other input the same
CompleteAfterInfrastructureOnly ==
  /\ prev.run >= 1
  /\ prev.pc = "done"
  /\ prev.mode = "infrastructure-only"
  /\ Finished
  /\ params.deploymentMode = "complete"
  /\ prev.env = env
  /\ prev.ctx = [ctx EXCEPT !.deploymentMode = prev.ctx.deploymentMode]

\* C6: for the same parameters, the resources of the infrastructure-only
\* run are, in order of creation, the first resources of the complete run, with
\* the same names and the same edges.
InfrastructureIsPrefixOfComplete ==
  CompleteAfterInfrastructureOnly =>
    /\ Len(prev.graph) <= Len(graph)
    /\ \A i \in 1..Len(prev.graph) : Node(graph[i]) = Node(prev.graph[i])

\* resources that end up in the cluster as Kubernetes objects
IsKubernetes(r) == r.via \in {"manifest", "sa"}

\* the Errors the program itself throws
ProgramErrors ==
  {"", ErrDomainName, ErrAdminPassword, ErrEfsFileSystemId, ErrNoCertificate,
   ErrInvalidMode(Resolved.deploymentMode)}

\* C7: in every mode no construct id is registered twice in one scope (so no
\* registration is refused as a duplicate), and no two Kubernetes resources have
\* the same kind, namespace and name.
LogicalNamesUnique ==
  /\ error \in ProgramErrors
  /\ \A i, j \in 1..Len(graph) :
       i < j => ~(ScopeOf(graph[i]) = ScopeOf(graph[j]) /\ graph[i].id = graph[j].id)
  /\ \A i, j \in 1..Len(graph) :
       (i < j /\ IsKubernetes(graph[i]) /\ IsKubernetes(graph[j])) =>
         <<graph[i].kind, graph[i].ns, graph[i].name>>
           # <<graph[j].kind, graph[j].ns, graph[j].name>>

\* C8: every persistentVolumeClaim claimName of a workload's volume is the
\* name of a PersistentVolumeClaim of the same namespace in the graph.
NoDanglingClaim ==
  \A i \in 1..Len(graph) : \A c \in graph[i].claims :
    \E j \in 1..Len(graph) :
      /\ graph[j].kind = "PersistentVolumeClaim"
      /\ graph[j].ns = graph[i].ns
      /\ graph[j].name = c

\* C9: every backend (service name, port) of an emitted Ingress is a Service
\* of that name in the Ingress's namespace that exposes that port.
IngressBackendsExist ==
  \A i \in 1..Len(graph) :
    graph[i].kind = "Ingress" =>
      \A b \in graph[i].backends :
        \E j \in 1..Len(graph) :
          /\ graph[j].kind = "Service"
          /\ graph[j].ns = graph[i].ns
          /\ graph[j].name = b[1]
          /\ b[2] \in graph[j].ports

\* a finished run has emitted the Ingress with its six backends
IngressEmitted ==
  /\ pc = "done"
  /\ \E i \in 1..Len(graph) :
       graph[i].kind = "Ingress" /\ Cardinality(graph[i].backends) = 6

\* the resources of kind `kind` named `name` in namespace ns
Producers(kind, ns, name) ==
  {j \in 1..Len(graph) :
     graph[j].kind = kind /\ graph[j].ns = ns /\ graph[j].name = name}

KindOfRef(ref) == IF ref[1] = "secret" THEN "Secret" ELSE "ConfigMap"

\* C10: every secretKeyRef and configMapKeyRef of a workload has exactly one
\* producer, a Secret or ConfigMap of that name in the workload's namespace,
\* and the producer defines the key.
KeyReferencesHaveOneProducer ==
  \A i \in 1..Len(graph) : \A ref \in graph[i].refs :
    LET producers == Producers(KindOfRef(ref), graph[i].ns, ref[2])
    IN  /\ Cardinality(producers) = 1
        /\ \A j \in producers : \E d \in graph[j].data : d[1] = ref[3]

\* a finished run has emitted fininfo-server with its secret key reference
\* and mcpgw-server with its two config map key references
KeyReferencesEmitted ==
  /\ pc = "done"
  /\ \E i \in 1..Len(graph) :
       <<"secret", "mcp-gateway-secrets", "polygon-api-key">> \in graph[i].refs
  /\ \E i \in 1..Len(graph) :
       {<<"configMap", "mcp-gateway-config", "AUTH_SERVER_URL">>,
        <<"configMap", "mcp-gateway-config", "REGISTRY_URL">>} \subseteq graph[i].refs

\* the resources of the graph with one of the ids
WithIds(ids) == {j \in 1..Len(graph) : graph[j].id \in ids}

\* ids a resource is ordered after: those it names with addDependency and
\* those whose attributes its payload reads, followed n levels up
RECURSIVE OrderedAfter(_, _)
OrderedAfter(ids, n) ==
  IF n = 0 THEN ids
  ELSE LET more == UNION {graph[j].deps \cup graph[j].uses : j \in WithIds(ids)}
       IN  IF more \subseteq ids THEN ids ELSE OrderedAfter(ids \cup more, n - 1)

\* C11: every manifest of namespace mcp-registry is ordered after the
\* Namespace manifest by its declared dependencies, and every workload
\* Deployment also after the Secret and the shared PersistentVolumeClaim, so
\* that applying in an order consistent with the declared dependencies never
\* applies a namespaced resource before its namespace.
NamespacedManifestsDependOnNamespace ==
  \A i \in 1..Len(graph) :
    (graph[i].via = "manifest" /\ graph[i].ns = McpNamespace) =>
      LET after == OrderedAfter(graph[i].deps \cup graph[i].uses, Len(graph))
      IN  /\ "McpRegistryNamespace" \in after
          /\ graph[i].kind = "Deployment" =>
               {"McpGatewaySecret", "EfsPvc"} \subseteq after

\* C12: a McpgwMicroservicesCdkStack constructed with an empty certificateArn
\* and without createCertificate never gets past setupCertificate: the
\* constructor throws the certificate error, and no construct, manifest or
\* output has been added.
NoCertificateSettingsThrow ==
  (~Truthy(props.certificateArn) /\ ~props.createCertificate) =>
    /\ pc \in {"setupCertificate", "failed"}
    /\ graph = << >>
    /\ outputs = << >>
    /\ pc = "failed" => error = ErrNoCertificate

\* a stack given every other prop but no certificate setting has thrown the
\* certificate error with nothing added
NoCertificateSettingsRejected ==
  /\ pc = "failed"
  /\ error = ErrNoCertificate
  /\ props.certificateArn = "" /\ ~props.createCertificate
  /\ props.domainName # "" /\ props.efsFileSystemId # "" /\ props.adminPassword # ""
  /\ graph = << >> /\ outputs = << >>

\* C13: a McpgwMicroservicesCdkStack constructed with an empty domainName,
\* efsFileSystemId or adminPassword is never constructed to the end, whatever
\* its certificate settings are: the constructor throws.
RequiredPropsValidated ==
  (props.domainName = "" \/ props.efsFileSystemId = "" \/ props.adminPassword = "") =>
    pc # "done"

\* the certificates the stack creates, and those it imports
NewCertificates ==
  {j \in 1..Len(graph) :
     graph[j].via = "cfn" /\ graph[j].kind = "AWS::CertificateManager::Certificate"}

ImportedCertificates ==
  {j \in 1..Len(graph) :
     graph[j].via = "import" /\ graph[j].kind = "AWS::CertificateManager::Certificate"}

\* the values of the outputs with this id
OutputValues(id) == {outputs[k].value : k \in {n \in 1..Len(outputs) : outputs[n].id = id}}

\* setupCertificate has returned
CertificateSetUp ==
  pc \in {"deployMicroservicesArchitecture", "createMicroservicesOutputs", "done"}

\* C14: in McpgwMicroservicesCdkStack a non-empty certificateArn wins even
\* when createCertificate is set: the certificate of that ARN is imported, no
\* certificate is created, there is no NewCertificateArn output, and the
\* CertificateArn output and the Ingress annotation are the supplied ARN.  With
\* no certificateArn and createCertificate set, exactly one certificate is
\* created, for domainName, none is imported, and the NewCertificateArn output
\* is exported.
CertificateResolvedByPrecedence ==
  CertificateSetUp =>
    /\ props.certificateArn # "" =>
         /\ NewCertificates = {}
         /\ Cardinality(ImportedCertificates) = 1
         /\ \A j \in ImportedCertificates :
              <<"certificateArn", props.certificateArn>> \in graph[j].data
         /\ OutputValues("NewCertificateArn") = {}
         /\ pc = "done" => OutputValues("CertificateArn") = {props.certificateArn}
         /\ \A i \in 1..Len(graph) :
              graph[i].kind = "Ingress" =>
                <<"alb.ingress.kubernetes.io/certificate-arn", props.certificateArn>>
                  \in graph[i].data
    /\ (props.certificateArn = "" /\ props.createCertificate) =>
         /\ Cardinality(NewCertificates) = 1
         /\ ImportedCertificates = {}
         /\ \A j \in NewCertificates :
              <<"domainName", props.domainName>> \in graph[j].data
         /\ OutputValues("NewCertificateArn") = {NewCertificateArnToken}

\* a stack given both a certificateArn and createCertificate has been
\* constructed to the end
ArnGivenWithCreateCertificate ==
  /\ pc = "done"
  /\ props.certificateArn # ""
  /\ props.createCertificate
  /\ OutputValues("CertificateArn") = {props.certificateArn}

\* createCertificate is given as false: by the context, or by
\* CREATE_CERTIFICATE=false with no context value
CreateCertificateDisabled ==
  \/ ctx.createCertificate = "false"
  \/ ctx.createCertificate = "" /\ env.createCertificate = "false"

\* C15: in every mode, with no certificateArn and createCertificate given as
\* false no ACM certificate is created; a certificate is created only when
\* certificateArn is absent and createCertificate is unset or true.
CreateCertificateFalseDisablesCreation ==
  /\ (Resolved.certificateArn = "" /\ CreateCertificateDisabled) => NewCertificates = {}
  /\ NewCertificates # {} =>
       Resolved.certificateArn = "" /\ ~CreateCertificateDisabled

\* the kinds of the resources the infrastructure consists of
VpcKinds == {"AWS::EC2::VPC", "AWS::EC2::FlowLog"}

EfsKinds == {"AWS::EFS::FileSystem", "AWS::EFS::AccessPoint"}

EksClusterKinds == {"Custom::AWSCDK-EKS-Cluster", "AWS::EKS::Cluster"}

CertificateKinds == {"AWS::CertificateManager::Certificate"}

CognitoKinds ==
  {"AWS::Cognito::UserPool", "AWS::Cognito::UserPoolClient",
   "AWS::Cognito::UserPoolDomain", "AWS::Cognito::UserPoolResourceServer",
   "AWS::Cognito::UserPoolGroup", "AWS::Cognito::UserPoolUser"}

\* the resources of these kinds the stack creates (not those it imports)
Created(kinds) ==
  {j \in 1..Len(graph) : graph[j].via = "cfn" /\ graph[j].kind \in kinds}

ApplicationOnlyStack == props.stackName = MicroservicesStackId

\* deployMicroservicesArchitecture has returned
MicroservicesDeployed == pc \in {"createMicroservicesOutputs", "done"}

ApplicationKinds ==
  {"Namespace", "Deployment", "Service", "HorizontalPodAutoscaler", "ConfigMap",
   "Secret", "PersistentVolumeClaim", "Ingress"}

InfrastructureOnlyStack == props.stackName = InfrastructureStackId

\* id, origin and kind of every resource of a graph
Inventory(g) == {<<g[i].id, g[i].via, g[i].kind>> : i \in 1..Len(g)}

\* this run is the complete run of the inputs of a finished
\* infrastructure-only run, and has just installed the EFS CSI driver
CompleteInfrastructureBuilt ==
  /\ prev.run >= 1
  /\ prev.pc = "done"
  /\ prev.mode = "infrastructure-only"
  /\ prev.env = env
  /\ prev.ctx = [ctx EXCEPT !.deploymentMode = prev.ctx.deploymentMode]
  /\ props.stackName = CompleteStackId
  /\ pc = "createRequiredNamespaces"

\* C17: the graph of the infrastructure-only stack holds no application
\* resource: no Namespace manifest, no Deployment, Service or
\* HorizontalPodAutoscaler, no ConfigMap, Secret or PersistentVolumeClaim, no
\* Ingress, nothing in namespace mcp-registry and no application Fargate
\* profile; once finished it holds the VPC, the EFS file system, the EKS
\* cluster, a certificate, the Cognito resources and the add-ons, and these are
\* the resources the complete stack of the same inputs has built when it turns
\* to the applications.
InfrastructureOnlyHasNoApplication ==
  /\ InfrastructureOnlyStack =>
       /\ \A i \in 1..Len(graph) :
            /\ graph[i].kind \notin ApplicationKinds
            /\ graph[i].ns # McpNamespace
            /\ graph[i].via # "fargate"
            /\ graph[i].kind # "AWS::EKS::FargateProfile"
       /\ pc = "done" =>
            /\ Created({"AWS::EC2::VPC"}) # {}
            /\ Created({"AWS::EFS::FileSystem"}) # {}
            /\ Created({"Custom::AWSCDK-EKS-Cluster"}) # {}
            /\ NewCertificates \cup ImportedCertificates # {}
            /\ \A k \in CognitoKinds : Created({k}) # {}
            /\ Created({"AWS::EKS::Addon"}) # {}
            /\ \E i \in 1..Len(graph) : graph[i].via = "chart"
  /\ CompleteInfrastructureBuilt => Inventory(graph) = Inventory(prev.graph)

\* a complete run has built the infrastructure that the infrastructure-only
\* run of the same inputs finished with
InfrastructureOnlyThenComplete ==
  /\ CompleteInfrastructureBuilt
  /\ Created({"Custom::AWSCDK-EKS-Cluster"}) # {}
  /\ \A i \in 1..Len(prev.graph) : prev.graph[i].kind \notin ApplicationKinds

\* the six workloads of the application
Workloads ==
  {"auth-server", "registry", "mcpgw-server", "currenttime-server",
   "fininfo-server", "faketools-server"}

\* nothing but the deployment mode, domainName and adminPassword is supplied
OnlyRequiredSupplied ==
  /\ KeysSet(ctx) = B2N(ctx.deploymentMode # "") + B2N(ctx.domainName # "")
                      + B2N(ctx.adminPassword # "")
  /\ OptionalSet(env) = 0
  /\ env.efsFileSystemId = ""
  /\ Resolved.domainName # ""
  /\ Resolved.adminPassword # ""

\* the values of the literal environment variables of a resource
EnvValues(r) == {e[2] : e \in r.env}

\* C18: a complete-mode run given only domainName and adminPassword finishes
\* with, for each of the six workloads, a Deployment that has the credentials
\* of the created user pool client in its environment and mounts a volume of
\* the shared file system, and with an Ingress that routes to a Service of
\* each of the six workloads and carries the ARN of the created certificate.
CompleteWorkloadsWired ==
  (Resolved.deploymentMode = "complete" /\ OnlyRequiredSupplied /\ Finished) =>
    /\ pc = "done"
    /\ \A w \in Workloads :
         \E i \in 1..Len(graph) :
           /\ graph[i].kind = "Deployment"
           /\ graph[i].ns = McpNamespace
           /\ graph[i].name = w
           /\ {UserPoolClientIdToken, UserPoolClientSecretToken, UserPoolIdToken}
                \subseteq EnvValues(graph[i])
           /\ graph[i].claims # {}
    /\ \E i \in 1..Len(graph) :
         /\ graph[i].kind = "Ingress"
         /\ {b[1] : b \in graph[i].backends} = Workloads
         /\ <<"alb.ingress.kubernetes.io/certificate-arn", NewCertificateArnToken>>
              \in graph[i].data

\* the admin password and the Cognito client secret of this run: the
\* COGNITO_CLIENT_SECRET of the environment for the microservices stack, the
\* secret of the created user pool client for the complete stack
SensitiveValues ==
  {Resolved.adminPassword, env.cognitoClientSecret, UserPoolClientSecretToken} \ {""}

\* every value a manifest carries in its payload or its container environment
PayloadValues(r) == {d[2] : d \in r.data} \cup EnvValues(r)

\* C19: neither the admin password nor the Cognito client secret is a value
\* of the payload of a manifest whose kind is not Secret.
SensitiveValuesOnlyInSecrets ==
  \A i \in 1..Len(graph) :
    (graph[i].via = "manifest" /\ graph[i].kind # "Secret") =>
      PayloadValues(graph[i]) \cap SensitiveValues = {}

\* the Kubernetes manifests added to the cluster
Manifests == {i \in 1..Len(graph) : graph[i].via = "manifest"}

\* the manifests of this kind
OfKind(kind) == {i \in Manifests : graph[i].kind = kind}

\* the keys the test of the environment variables looks for in the ConfigMap
ServiceUrlKeys ==
  {"AUTH_SERVER_URL", "REGISTRY_URL", "MCPGW_SERVER_URL", "CURRENTTIME_SERVER_URL",
   "FININFO_SERVER_URL", "FAKETOOLS_SERVER_URL", "DOMAIN_NAME", "EFS_FILE_SYSTEM_ID"}

\* C20: whenever deployMicroservicesArchitecture of McpgwMicroservicesCdkStack
\* has returned, the stack has added more than 15 Kubernetes manifests to the
\* cluster, among them a Deployment and a Service named after each of the six
\* workloads, an Ingress, a ConfigMap, a Secret, a StorageClass and a
\* PersistentVolumeClaim, and the ConfigMap defines the six service URLs,
\* DOMAIN_NAME and EFS_FILE_SYSTEM_ID, the last two with the values of the props.
ApplicationManifestsComplete ==
  MicroservicesDeployed =>
    /\ Cardinality(Manifests) > 15
    /\ \A w \in Workloads :
         /\ \E i \in OfKind("Deployment") : graph[i].name = w
         /\ \E i \in OfKind("Service") : graph[i].name = w
    /\ \A kind \in {"Ingress", "ConfigMap", "Secret", "StorageClass",
                    "PersistentVolumeClaim"} : OfKind(kind) # {}
    /\ \E i \in OfKind("ConfigMap") :
         /\ ServiceUrlKeys \subseteq {d[1] : d \in graph[i].data}
         /\ <<"DOMAIN_NAME", props.domainName>> \in graph[i].data
         /\ <<"EFS_FILE_SYSTEM_ID", props.efsFileSystemId>> \in graph[i].data

\* the stack of the first unit test (every required prop and a
\* certificateArn) has been constructed to the end
TestStackConstructed ==
  /\ pc = "done"
  /\ props.stackName = TestStackId
  /\ props.domainName # "" /\ props.efsFileSystemId # "" /\ props.adminPassword # ""
  /\ props.certificateArn # ""
  /\ Cardinality(Manifests) > 15

\* the commands main has a handler for
HandledCommands == CommandWords \ {"help"}

\* the command lines of command c: alone, or with --profile NAME before or
\* after it
CommandLines(c) ==
  {<<c>>} \cup {<<"--profile", n, c>> : n \in ArgWords \ {"--profile"}}
          \cup {<<c, "--profile", n>> : n \in ArgWords \ {"--profile"}}

\* main has chosen its handler
MainDispatched == sh.pc \notin {"parse", "callMain", "main"} /\ sh.command # ""

\* C21: deploy.sh called with one of the commands synth, deploy, destroy,
\* diff, status, monitor and logs, with or without --profile NAME before or
\* after it, runs the handler of that command in main; the help text is shown
\* only when the command line has no command or an unknown one.
CommandRunsItsHandler ==
  MainDispatched =>
    /\ \A c \in HandledCommands : sh.line \in CommandLines(c) => sh.command = c
    /\ sh.out = "help" =>
         \A i \in 1..Len(sh.line) : sh.line[i] \notin HandledCommands

\* the elements of a sequence
Range(q) == {q[i] : i \in 1..Len(q)}

\* the five steps before deploy_stack, in the order of main
BeforeDeploy ==
  <<"check_prerequisites", "load_config", "validate_config", "install_dependencies",
    "synth_stack">>

\* C22: whenever cdk deploy has been invoked, check_prerequisites,
\* load_config, validate_config, install_dependencies and synth_stack have
\* returned before it, in this order, npm install and cdk synth have been run
\* and the synthesized application has not thrown; a deploy run that has ended
\* without invoking cdk deploy has ended with a non-zero status; with a checked
\* tool missing, a DEPLOYMENT_MODE load_config rejects, a required variable
\* missing or an entry point that has thrown, cdk deploy is not invoked.
DeployOnlyAfterChecks ==
  /\ "cdk deploy" \in Range(sh.ran) =>
       /\ sh.command = "deploy"
       /\ SubSeq(sh.done, 1, 5) = BeforeDeploy
       /\ sh.ran = <<"npm install", "cdk synth", "cdk deploy">>
       /\ pc = "done"
       /\ MissingTools(sh.tools) = {}
       /\ ScriptMode(env) \in ScriptModes
       /\ MissingVars(sh.tools, ctx, env) = << >>
  /\ (sh.command = "deploy" /\ sh.pc = "exit" /\ "cdk deploy" \notin Range(sh.ran)) =>
       sh.status = 1
  /\ (sh.command = "deploy" /\ pc = "failed") => sh.pc \in {"cdkSynth", "exit"}

\* a deploy run has invoked cdk deploy and ended with status 0
DeployRunCompleted ==
  /\ sh.command = "deploy"
  /\ sh.pc = "exit"
  /\ sh.status = 0
  /\ "cdk deploy" \in Range(sh.ran)
  /\ sh.done = Append(BeforeDeploy, "deploy_stack")

\* C23: when no deployment mode is configured (no deploymentMode context key
\* and no DEPLOYMENT_MODE variable), the resolved mode is application-only and
\* the stack the entry point instantiates is the application-only stack.
ApplicationOnlyIsDefault ==
  (ctx.deploymentMode = "" /\ env.deploymentMode = "") =>
    /\ pc # "start" => params.deploymentMode = "application-only"
    /\ \A i \in 1..Len(stacks) : stacks[i] = MicroservicesStackId

\* the string handed to parseInt for maxAzs: context key, then MAX_AZS, then '3'
RawMaxAzs == OrSeq(ctx.maxAzs, OrSeq(env.maxAzs, <<"3">>))

\* the string is a decimal integer from its first to its last character
IsIntegerString(s) == s # << >> /\ \A i \in 1..Len(s) : s[i] \in Digits

\* C24: in a mode that builds the VPC (complete or infrastructure-only), a
\* maxAzs value that is not a valid integer makes the run fail with an
\* invalid-parameter-type error: no stack is constructed with a default in its
\* place.
UnparsableMaxAzsRejected ==
  (/\ pc # "start"
   /\ params.deploymentMode \in {"complete", "infrastructure-only"}
   /\ ~IsIntegerString(RawMaxAzs)) =>
    /\ stacks = << >>
    /\ pc # "done"

\* the required variables set neither in the environment nor in
\* cdk.context.json, in the order validate_config names them
AbsentVars ==
     (IF env.domainName = "" /\ ctx.domainName = "" THEN <<"DOMAIN_NAME">> ELSE << >>)
  \o (IF env.adminPassword = "" /\ ctx.adminPassword = ""
      THEN <<"ADMIN_PASSWORD">> ELSE << >>)
  \o (IF /\ ScriptMode(env) = "application-only"
         /\ env.efsFileSystemId = "" /\ ctx.efsFileSystemId = ""
      THEN <<"EFS_FILE_SYSTEM_ID (required for application-only mode)">>
      ELSE << >>)

\* validate_config has returned or has ended the script
ValidateConfigActed ==
  sh.missing # << >> \/ "validate_config" \in Range(sh.done)

\* C25: validate_config lists exactly the required variables that are absent
\* from both the environment and cdk.context.json and exits with status 1; when
\* none is absent it reports the configuration valid, whatever the certificate
\* settings are.
MissingVarsReportedExactly ==
  ValidateConfigActed =>
    /\ sh.missing = AbsentVars
    /\ AbsentVars # << >> => sh.pc = "exit" /\ sh.status = 1
    /\ AbsentVars = << >> => "validate_config" \in Range(sh.done)

\* the same statement for the runs where jq is installed
MissingVarsReportedExactlyWithJq ==
  "jq" \in sh.tools => MissingVarsReportedExactly

\* C26: deploy.sh status inspects the namespace the stacks deploy the
\* microservices to: on a cluster that has that namespace, status finds it.
StatusFindsDeployedNamespace ==
  (/\ sh.command = "status"
   /\ sh.pc = "exit"
   /\ McpNamespace \in sh.namespaces) =>
    /\ sh.out # "Namespace not found. Stack may not be deployed."
    /\ \A i \in 1..Len(sh.ran) : sh.ran[i] = "kubectl get pods -n " \o McpNamespace

\* what load_config prints when it refuses the mode (line 129)
InvalidDeploymentMode ==
  "Invalid DEPLOYMENT_MODE: " \o ScriptMode(env) \o ". Use 'complete' or 'application-only'"

ScriptModesAreEntryPointModes ==
  "load_config" \in Range(sh.done) => ScriptMode(env) \in ValidModes

\* C28: a configuration load_config and validate_config accept passes the mode
\* and required-parameter checks of the entry point: the entry point selects
\* the mode the script selected and throws none of these errors.
AcceptedByScriptAcceptedByEntryPoint ==
  (/\ "validate_config" \in Range(sh.done)
   /\ pc \notin {"notStarted", "start"}) =>
    /\ params.deploymentMode = ScriptMode(env)
    /\ error \notin {ErrDomainName, ErrAdminPassword, ErrEfsFileSystemId,
                     ErrInvalidMode(params.deploymentMode)}

\* C29: in application-only mode the props the entry point hands to
\* McpgwMicroservicesCdkStack have a non-empty certificateArn or a true
\* createCertificate, and setupCertificate never throws 'Either certificateArn
\* or createCertificate must be provided'.
ApplicationOnlyCertificateProvided ==
  (pc # "start" /\ params.deploymentMode = "application-only") =>
    /\ error # ErrNoCertificate
    /\ props # NoProps => Truthy(props.certificateArn) \/ props.createCertificate

\* an application-only run has come through setupCertificate with no
\* certificateArn anywhere and CREATE_CERTIFICATE=false
ApplicationOnlyNoCertificateSettingsDone ==
  /\ pc = "done"
  /\ params.deploymentMode = "application-only"
  /\ stacks = <<MicroservicesStackId>>
  /\ ~Truthy(params.certificateArn)
  /\ ctx.createCertificate = ""
  /\ env.createCertificate = "false"
  /\ props.createCertificate

\* the values of the literal SECRET_KEY variable of a workload
SecretKeyOf(r) == {kv[2] : kv \in {x \in r.env : x[1] = "SECRET_KEY"}}

AuthServerWorkloads ==
  {i \in 1..Len(graph) : graph[i].kind = "Deployment" /\ graph[i].name = "auth-server"}

RegistryWorkloads ==
  {i \in 1..Len(graph) : graph[i].kind = "Deployment" /\ graph[i].name = "registry"}

\* C30: in every graph with the workloads, the auth-server Deployment and the
\* registry Deployment are given one and the same SECRET_KEY, the key
\* generated for the composition.
AuthServerAndRegistryShareSecretKey ==
  \A i \in AuthServerWorkloads, j \in RegistryWorkloads :
    /\ Cardinality(SecretKeyOf(graph[i])) = 1
    /\ SecretKeyOf(graph[i]) = SecretKeyOf(graph[j])
    /\ SecretKeyOf(graph[i]) \subseteq SecretKeys

\* a finished composition holds both Deployments, with the second of the keys
\* that can be generated
BothDeploymentsWithGeneratedKey ==
  /\ pc = "done"
  /\ \E i \in AuthServerWorkloads, j \in RegistryWorkloads :
       SecretKeyOf(graph[i]) = {"rnd2"} /\ SecretKeyOf(graph[j]) = {"rnd2"}

=============================================================================
